---- MODULE Spec2Model ----
(***************************************************************************)
(* Stream sessions, frame capture and threat assessment of the RTMP        *)
(* surveillance server (src/src/server.ts, src/debug_format.js).           *)
(*                                                                         *)
(* Spec        : the stream session manager and the capture pipeline.      *)
(* ThreatSpec  : ThreatDetector.analyzeThreat and the scorers it calls.    *)
(* TickSpec    : Spec with classifyImage, the keyword filter, the summary  *)
(*               log and the safety alert of each tick.                    *)
(* NotifySpec  : one line of classifier output, its assessment and its     *)
(*               notification (the build that runs the Python classifier). *)
(* NotifierSpec: SafetyAlertNotifier.sendSafetyAlert (telegramNotifier.ts).*)
(* CleanupSpec : FileCleanupService; LegacyCleanupSpec: cleanupOldFiles of *)
(*               src/server.js.                                            *)
(* DescribeSpec: one tick from the call of ImageClassifier.classifyImage   *)
(*               (imageClassifier.ts) to the end of the tick.              *)
(* TriggerSpec : SafetyDetectionFilter.shouldTriggerAlert on its own.      *)
(* SettleSpec  : Spec with a frame file that can be lost during the settle *)
(*               delay.                                                    *)
(* ParseSpec   : ThreatDetector._parseAISecurityAnalysis on its own.       *)
(* ShutdownSpec: Spec with the SIGINT handler.                             *)
(***************************************************************************)
EXTENDS Integers, Sequences, FiniteSets, TLC

(***************************************************************************)
(* Bounds of the model.                                                    *)
(***************************************************************************)
\* Sessions that startFrameCapture may create in one run.
MaxSessions == 2
\* Frames that captureFrameFromStream may number in one run.
MaxFrames == 2

\* config.cleanup.maxFiles, scaled to the directories of the model.
maxFiles == 2

\* const maxFiles = 100 of the legacy cleanupOldFiles, scaled likewise.
legacyMaxFiles == 3

\* Stream paths the transport layer publishes.
StreamKeys == {"live/a", "live/b"}

VARIABLES
    activeStreams,  \* Map<string, Timeout>: stream path -> interval timer id
    timers,         \* pending Node timers: [id, kind, key]
    timerSeq,       \* timer ids handed out so far
    frameCount,     \* let frameCount = 0
    pipelines,      \* capture pipelines in flight: [frame, key, stage]
    stopped,        \* stopped[k]: stopFrameCapture(k) returned, no start since
    startedTwice,   \* startFrameCapture ran for a path that was already capturing
    allocated,      \* the frame numbers captureFrameFromStream gave out, in order
    unusable,       \* frames whose extractor failed or left no data in its file
    serverConfig,   \* the configuration the server was started with (config)
    classification, \* per frame in flight: const classification = await ...
    summaryLog,     \* classification_summary.jsonl: the entries appended
    resultFiles,    \* the frames whose result record was written
    alerts,         \* the frames the alert channel was invoked for
    failedDescriptions, \* the frames whose description was reported as failed
    undelivered,    \* the frames whose alert the channel did not deliver
    notifyPc,       \* where _parseClassificationOutput and the notification stand
    _threatAnalysis, \* classificationResult._threatAnalysis
    lostFiles,      \* frames whose file was emptied or removed after fs.stat
    exited,         \* process.exit(0) was called
    classificationText, \* the argument of the last shouldTriggerAlert call
    triggerAlert,   \* what that call returned
    classifierPc,   \* where imageClassifier.classifyImage stands
    requests,       \* the classification requests sent for the frame, with replies
    settled,        \* how imageClassifier.classifyImage settled
    detector,       \* ThreatDetector.config: [notificationThreshold, detailedAnalysis]
    pc,             \* where the analyzeThreat call stands
    classificationResult, \* the argument of analyzeThreat
    patternAnalysis,      \* const patternAnalysis = this._analyzePatterns(...)
    contextAnalysis,      \* let contextAnalysis = { score: 0, factors: [] }
    contextCall,    \* how the call of the contextual scorer ended
    analysisOutput, \* the argument of the last _parseAISecurityAnalysis call
    thrown,         \* the message of the exception raised inside the try block
    analysis,       \* the assessment analyzeThreat returned
    notifierPc,     \* where the sendSafetyAlert call stands
    alertOptions,   \* the SafetyAlertOptions of the call
    evidenceOnDisk, \* existsSync(options.image) at the time of the call
    sent,           \* the Telegram requests made by the call, with their outcomes
    delivered,      \* the boolean sendSafetyAlert resolved with
    captureDir,     \* the frames directory: file name -> mtime
    classificationDir, \* the results directory: file name -> mtime
    readdirs,       \* the fs.readdir calls of a sweep whose callback is due
    sweepLog,       \* the console lines of the current sweep
    swept,          \* per directory, what its last sweep listed and chose to delete
    written,        \* the files written since the server started
    uncaught        \* an exception left a callback: the process is gone

streamVars == <<activeStreams, timers, timerSeq, frameCount, pipelines, stopped,
                startedTwice, allocated, unusable>>

tickVars == <<serverConfig, classification, summaryLog, resultFiles, alerts,
              failedDescriptions, undelivered>>

notifyVars == <<notifyPc, _threatAnalysis>>

classifierVars == <<classifierPc, requests, settled>>

filterVars == <<classificationText, triggerAlert>>

fileVars == <<lostFiles>>

processVars == <<exited>>

threatVars == <<detector, pc, classificationResult, patternAnalysis,
                contextAnalysis, contextCall, analysisOutput, thrown, analysis>>

notifierVars == <<notifierPc, alertOptions, evidenceOnDisk, sent, delivered>>

cleanupVars ==
    <<captureDir, classificationDir, readdirs, sweepLog, swept, written, uncaught>>

\* What the actions of one service leave alone: the state of the others.
offStream ==
    <<tickVars, notifyVars, threatVars, notifierVars, cleanupVars,
      classifierVars, filterVars, fileVars,
      processVars>>

offThreat ==
    <<streamVars, tickVars, notifyVars, notifierVars, cleanupVars,
      classifierVars, filterVars, fileVars,
      processVars>>

offNotifier ==
    <<streamVars, tickVars, notifyVars, threatVars, cleanupVars,
      classifierVars, filterVars, fileVars,
      processVars>>

offCleanup ==
    <<streamVars, tickVars, notifyVars, threatVars, notifierVars,
      classifierVars, filterVars, fileVars,
      processVars>>

vars == <<activeStreams, timers, timerSeq, frameCount, pipelines, stopped,
          startedTwice, allocated, unusable,
          serverConfig, classification, summaryLog, resultFiles, alerts,
          failedDescriptions, undelivered, notifyPc, _threatAnalysis,
          classifierPc, requests, settled, classificationText, triggerAlert, lostFiles, exited,
          detector, pc, classificationResult, patternAnalysis,
          contextAnalysis, contextCall, analysisOutput, thrown, analysis,
          notifierPc, alertOptions, evidenceOnDisk, sent, delivered,
          captureDir, classificationDir, readdirs, sweepLog, swept, written,
          uncaught>>

(***************************************************************************)
(* Stream Management Service                                               *)
(***************************************************************************)
Stages == {"ffmpeg", "stat", "settle", "classify", "save", "alert"}

StreamInit ==
    /\ activeStreams = <<>>
    /\ timers = {}
    /\ timerSeq = 0
    /\ frameCount = 0
    /\ pipelines = {}
    /\ stopped = [k \in StreamKeys |-> FALSE]
    /\ startedTwice = FALSE
    /\ allocated = <<>>
    /\ unusable = {}

\* activeStreams.has(streamPath), the guard of startFrameCapture.
AlreadyCapturingNever(streamPath) == FALSE

AlreadyCapturing(streamPath) == streamPath \in DOMAIN activeStreams

\* A capture numbered by the captures of its own stream, not by frameCount.
captureFrameFromStreamPerSession(streamPath) ==
    LET sequence == 1 + Cardinality({i \in DOMAIN allocated :
                                        allocated[i].key = streamPath})
    IN  /\ frameCount < MaxFrames
        /\ frameCount' = frameCount + 1
        /\ allocated' = Append(allocated, [frame |-> sequence, key |-> streamPath])
        /\ pipelines' = pipelines \cup
              {[frame |-> sequence, key |-> streamPath, stage |-> "ffmpeg"]}

\* FrameCaptureService.captureFrameFromStream: frameCount++, name the file
\* after it, spawn ffmpeg.
captureFrameFromStream(streamPath) ==
    /\ frameCount < MaxFrames
    /\ frameCount' = frameCount + 1
    /\ allocated' = Append(allocated, [frame |-> frameCount', key |-> streamPath])
    /\ pipelines' = pipelines \cup
          {[frame |-> frameCount', key |-> streamPath, stage |-> "ffmpeg"]}

\* StreamManagementService.startFrameCapture.
startFrameCapture(streamPath) ==
    /\ stopped' = [stopped EXCEPT ![streamPath] = FALSE]
    /\ startedTwice' = (startedTwice \/ streamPath \in DOMAIN activeStreams)
    /\ IF AlreadyCapturing(streamPath)
       THEN UNCHANGED <<activeStreams, timers, timerSeq>>
       ELSE /\ timerSeq < 2 * MaxSessions
            /\ timers' = timers \cup
                  {[id |-> timerSeq + 1, kind |-> "timeout", key |-> streamPath],
                   [id |-> timerSeq + 2, kind |-> "interval", key |-> streamPath]}
            /\ timerSeq' = timerSeq + 2
            /\ activeStreams' = (streamPath :> (timerSeq + 2)) @@ activeStreams
    /\ UNCHANGED <<frameCount, pipelines, allocated, unusable>>
    /\ UNCHANGED offStream

\* A clearInterval that cancels every recurring timer.
clearIntervalOfAll(interval) == {t \in timers : t.kind # "interval"}

\* A clearInterval that cancels nothing.
clearIntervalNoOp(interval) == timers

\* clearInterval(interval): the timers that stay.
clearInterval(interval) == {t \in timers : t.id # interval}

\* StreamManagementService.stopFrameCapture: clearInterval, then delete.
stopFrameCapture(streamPath) ==
    /\ stopped' = [stopped EXCEPT ![streamPath] = TRUE]
    /\ UNCHANGED startedTwice
    /\ IF streamPath \in DOMAIN activeStreams
       THEN /\ timers' = clearInterval(activeStreams[streamPath])
            /\ activeStreams' = [k \in DOMAIN activeStreams \ {streamPath}
                                    |-> activeStreams[k]]
       ELSE UNCHANGED <<activeStreams, timers>>
    /\ UNCHANGED <<timerSeq, frameCount, pipelines, allocated, unusable>>
    /\ UNCHANGED offStream

\* The one-shot timer of startFrameCapture fires (setTimeout, initialDelayMs).
InitialTimeoutFires(t) ==
    /\ t \in timers /\ t.kind = "timeout"
    /\ timers' = timers \ {t}
    /\ captureFrameFromStream(t.key)
    /\ UNCHANGED <<activeStreams, timerSeq, stopped, startedTwice, unusable>>
    /\ UNCHANGED offStream

\* The recurring timer of startFrameCapture fires (setInterval).
IntervalFires(t) ==
    /\ t \in timers /\ t.kind = "interval"
    /\ captureFrameFromStream(t.key)
    /\ UNCHANGED <<activeStreams, timers, timerSeq, stopped, startedTwice, unusable>>
    /\ UNCHANGED offStream

(***************************************************************************)
(* Frame Capture Service: the stages of one pipeline                       *)
(***************************************************************************)
Advance(p, stage) == pipelines' = (pipelines \ {p}) \cup {[p EXCEPT !.stage = stage]}

Finish(p) == pipelines' = pipelines \ {p}

\* ffmpeg.on("close") -> _handleCaptureResult(code, ...).
handleCaptureResult(p, code) ==
    /\ p \in pipelines /\ p.stage = "ffmpeg"
    /\ IF code = 0 THEN Advance(p, "stat") ELSE Finish(p)
    /\ unusable' = IF code # 0 THEN unusable \cup {p.frame} ELSE unusable
    /\ UNCHANGED <<activeStreams, timers, timerSeq, frameCount, stopped, startedTwice,
                   allocated>>
    /\ UNCHANGED offStream

\* stats.size of the extractor's output file: nothing written, or a frame.
FileSizes == {0, 1}

\* A stat test that accepts a file of any size.
HasDataAnySize(err, size) == ~err

\* !err && stats.size > 0
HasData(err, size) == ~err /\ size > 0

\* The fs.stat callback: a file with data schedules the classification.
StatCallback(p, err, size) ==
    /\ p \in pipelines /\ p.stage = "stat"
    /\ IF HasData(err, size) THEN Advance(p, "settle") ELSE Finish(p)
    /\ unusable' = IF err \/ size = 0 THEN unusable \cup {p.frame} ELSE unusable
    /\ UNCHANGED <<activeStreams, timers, timerSeq, frameCount, stopped, startedTwice,
                   allocated>>
    /\ UNCHANGED offStream

\* setTimeout(() => classifyImage(outputPath), processDelayMs) fires.
SettleElapsed(p) ==
    /\ p \in pipelines /\ p.stage = "settle"
    /\ Advance(p, "classify")
    /\ UNCHANGED <<activeStreams, timers, timerSeq, frameCount, stopped, startedTwice,
                   allocated, unusable>>
    /\ UNCHANGED offStream

\* ClassificationService.classifyImage settles (result saved, alert sent or not).
ClassifyImageSettles(p) ==
    /\ p \in pipelines /\ p.stage = "classify"
    /\ Finish(p)
    /\ UNCHANGED <<activeStreams, timers, timerSeq, frameCount, stopped, startedTwice,
                   allocated, unusable>>
    /\ UNCHANGED offStream

(***************************************************************************)
(* Configuration (config.js) as the services read it                       *)
(***************************************************************************)
\* serverConfig.notifications.triggers of the repository's config.js.
RepoTriggers ==
    [defined |-> TRUE, enabled |-> TRUE,
     keywords |-> {"beer", "Beer", "book", "Book"}, requireAll |-> FALSE]

\* A configuration without a triggers section.
NoTriggers == [defined |-> FALSE, enabled |-> FALSE, keywords |-> {}, requireAll |-> FALSE]

\* The configurations of the model: config.js, config.template.js (alerts
\* off), and config.js with the triggers section left out.  All of them
\* have classification.enabled = true.
RepoConfig == [notifications |-> TRUE, triggers |-> RepoTriggers]

Configs ==
    {RepoConfig,
     [notifications |-> FALSE, triggers |-> RepoTriggers],
     [notifications |-> TRUE, triggers |-> NoTriggers]}

\* The words of a description, as the description service spells them.
DescriptionWords == {"Beer"}

\* What imageClassifier.classifyImage resolves with: a text, or a value that
\* is no string (choices[0].message.content of a reply without content).
Classifications ==
    {[isString |-> TRUE, text |-> t] : t \in SUBSET DescriptionWords}
    \cup {[isString |-> FALSE, text |-> {}]}

NoClassification == [isString |-> FALSE, text |-> {}]

Classification(words) == [isString |-> TRUE, text |-> words]

\* How the call of the description service ends: a rejection, or a value.
DescriptionOutcomes ==
    {[threw |-> TRUE, value |-> NoClassification]}
    \cup {[threw |-> FALSE, value |-> c] : c \in Classifications}

\* String.prototype.toLowerCase on the words of the model.
toLowerCase(word) ==
    CASE word \in {"Beer", "BEER"} -> "beer"
      [] word \in {"Book", "BOOK"} -> "book"
      [] OTHER -> word

\* An occurrence test that compares the words as they are spelled.
IncludesAsSpelled(text, keyword) == keyword \in text

\* text.includes(keyword.toLowerCase()) with text = classificationText.toLowerCase()
Includes(text, keyword) == toLowerCase(keyword) \in {toLowerCase(w) : w \in text}

(***************************************************************************)
(* Safety Detection Filter, Safety Alert Service, Summary Logger           *)
(***************************************************************************)
\* SafetyDetectionFilter.shouldTriggerAlert: "throws", or the boolean.
shouldTriggerAlert(c) ==
    IF ~(serverConfig.triggers.defined /\ serverConfig.triggers.enabled) THEN "true"
    ELSE IF serverConfig.triggers.keywords = {} THEN "true"
    ELSE IF ~c.isString THEN "throws"
    ELSE IF serverConfig.triggers.requireAll
         THEN IF \A k \in serverConfig.triggers.keywords : Includes(c.text, k)
              THEN "true" ELSE "false"
         ELSE IF \E k \in serverConfig.triggers.keywords : Includes(c.text, k)
              THEN "true" ELSE "false"

\* SafetyDetectionFilter.getDetectedThreats: "throws", or "returns".
getDetectedThreats(c) ==
    IF ~serverConfig.triggers.defined \/ ~c.isString THEN "throws" ELSE "returns"

\* SafetyAlertService.sendSafetyAlert up to its await: "returns" (no alert),
\* "throws", or "awaits" the notifier.
SafetyAlertStarts(c) ==
    IF ~serverConfig.notifications THEN "returns"
    ELSE IF shouldTriggerAlert(c) = "false" THEN "returns"
    ELSE IF shouldTriggerAlert(c) = "throws" THEN "throws"
    ELSE IF getDetectedThreats(c) = "throws" THEN "throws"
    ELSE "awaits"

\* SummaryLogger.saveResult: one line appended to classification_summary.jsonl.
saveResult(log, frame, success) == Append(log, [frame |-> frame, success |-> success])

\* A property that was never assigned.
Undefined == [defined |-> FALSE]

(***************************************************************************)
(* SafetyDetectionFilter.shouldTriggerAlert on its own                     *)
(***************************************************************************)
\* Trigger sections with filtering on or off, any selection of the four
\* keywords of config.js, and either value of requireAll.
TriggerConfigs ==
    {[notifications |-> TRUE,
      triggers |-> [defined |-> TRUE, enabled |-> e, keywords |-> ks, requireAll |-> r]] :
        e \in BOOLEAN, ks \in SUBSET RepoTriggers.keywords, r \in BOOLEAN}

\* Descriptions that spell the keywords in a case of their own.
FilterTexts ==
    {Classification(t) : t \in SUBSET {"Beer", "BOOK", "gun"}} \cup {NoClassification}

\* One call of shouldTriggerAlert.
TriggerAlertCalled(c) ==
    /\ classificationText' = c
    /\ triggerAlert' = shouldTriggerAlert(c)
    /\ UNCHANGED <<streamVars, tickVars, notifyVars, threatVars, notifierVars,
                   cleanupVars, classifierVars, fileVars, processVars>>

TriggerNext == \E c \in FilterTexts : TriggerAlertCalled(c)

TickIdle ==
    /\ classification = <<>>
    /\ summaryLog = <<>>
    /\ resultFiles = {}
    /\ alerts = {}
    /\ failedDescriptions = {}
    /\ undelivered = {}
    /\ notifyPc = "idle"
    /\ _threatAnalysis = Undefined
    /\ classifierPc = "idle"
    /\ requests = <<>>
    /\ settled = [threw |-> FALSE, value |-> NoClassification]
    /\ classificationText = NoClassification
    /\ triggerAlert = "none"
    /\ lostFiles = {}
    /\ exited = FALSE

Forget(frame) == [f \in DOMAIN classification \ {frame} |-> classification[f]]

streamFrame == <<activeStreams, timers, timerSeq, frameCount, stopped, startedTwice,
                 allocated, unusable>>

offTick ==
    <<notifyVars, threatVars, notifierVars, cleanupVars, classifierVars, filterVars, fileVars,
      processVars>>

(***************************************************************************)
(* Classification Service: classifyImage between its awaits                *)
(***************************************************************************)
\* await imageClassifier.classifyImage(...) settles: the catch block on a
\* rejection, else on to saveClassificationResult.
DescriptionSettles(p, outcome) ==
    /\ p \in pipelines /\ p.stage = "classify"
    /\ IF outcome.threw
       THEN /\ summaryLog' = saveResult(summaryLog, p.frame, FALSE)
            /\ failedDescriptions' = failedDescriptions \cup {p.frame}
            /\ Finish(p)
            /\ UNCHANGED classification
       ELSE /\ classification' = (p.frame :> outcome.value) @@ classification
            /\ Advance(p, "save")
            /\ UNCHANGED <<summaryLog, failedDescriptions>>
    /\ UNCHANGED <<serverConfig, resultFiles, alerts, undelivered>>
    /\ UNCHANGED streamFrame
    /\ UNCHANGED offTick

\* await saveClassificationResult(...) settles; classifyImage runs on to the
\* await inside SafetyAlertService.sendSafetyAlert, or to its end.
SaveSettles(p, ok) ==
    /\ p \in pipelines /\ p.stage = "save"
    /\ IF ~ok
       THEN /\ summaryLog' = saveResult(summaryLog, p.frame, FALSE)
            /\ classification' = Forget(p.frame)
            /\ Finish(p)
            /\ UNCHANGED <<resultFiles, alerts>>
       ELSE LET c == classification[p.frame]
                logged == saveResult(summaryLog, p.frame, TRUE)
            IN  /\ resultFiles' = resultFiles \cup {p.frame}
                /\ CASE SafetyAlertStarts(c) = "returns" ->
                          /\ summaryLog' = logged
                          /\ classification' = Forget(p.frame)
                          /\ Finish(p)
                          /\ UNCHANGED alerts
                     [] SafetyAlertStarts(c) = "throws" ->
                          /\ summaryLog' = saveResult(logged, p.frame, FALSE)
                          /\ classification' = Forget(p.frame)
                          /\ Finish(p)
                          /\ UNCHANGED alerts
                     [] OTHER ->
                          /\ summaryLog' = logged
                          /\ alerts' = alerts \cup {p.frame}
                          /\ Advance(p, "alert")
                          /\ UNCHANGED classification
    /\ UNCHANGED <<serverConfig, failedDescriptions, undelivered>>
    /\ UNCHANGED streamFrame
    /\ UNCHANGED offTick

\* A rejection of the notifier reaching the catch block of classifyImage.
AfterAlertUncaught(log, frame, outcome) ==
    IF outcome = "threw" THEN saveResult(log, frame, FALSE) ELSE log

\* The summary log after the try/catch around the notifier call: as before.
AfterAlert(log, frame, outcome) == log

\* await safetyAlertNotifier.sendSafetyAlert(...) settles: true, false or a
\* rejection, each of them only logged.
AlertSettles(p, outcome) ==
    /\ p \in pipelines /\ p.stage = "alert"
    /\ outcome \in {"true", "false", "threw"}
    /\ summaryLog' = AfterAlert(summaryLog, p.frame, outcome)
    /\ undelivered' = IF outcome = "true" THEN undelivered
                      ELSE undelivered \cup {p.frame}
    /\ classification' = Forget(p.frame)
    /\ Finish(p)
    /\ UNCHANGED <<serverConfig, resultFiles, alerts, failedDescriptions>>
    /\ UNCHANGED streamFrame
    /\ UNCHANGED offTick

TickNext ==
    \/ \E k \in StreamKeys : startFrameCapture(k)
    \/ \E k \in StreamKeys : stopFrameCapture(k)
    \/ \E t \in timers : InitialTimeoutFires(t)
    \/ \E t \in timers : IntervalFires(t)
    \/ \E p \in pipelines, code \in {0, 1} : handleCaptureResult(p, code)
    \/ \E p \in pipelines, err \in BOOLEAN, size \in FileSizes : StatCallback(p, err, size)
    \/ \E p \in pipelines : SettleElapsed(p)
    \/ \E p \in pipelines, outcome \in DescriptionOutcomes :
          DescriptionSettles(p, outcome)
    \/ \E p \in pipelines, ok \in BOOLEAN : SaveSettles(p, ok)
    \/ \E p \in pipelines, outcome \in {"true", "false", "threw"} :
          AlertSettles(p, outcome)

(***************************************************************************)
(* ImageClassifier (imageClassifier.ts): one classifyImage call            *)
(***************************************************************************)
\* What the description service answers to one classification request:
\* fetch rejects, a non-2xx status, a JSON body (its content a text, a text
\* with a keyword, no string, or no choices at all), a ZIP (its .response
\* entry likewise, absent, or the archive unreadable), or another format.
ApiReplies ==
    {[kind |-> "network", body |-> "none"], [kind |-> "status", body |-> "none"],
     [kind |-> "json", body |-> "text"], [kind |-> "json", body |-> "keyword"],
     [kind |-> "json", body |-> "nonstring"], [kind |-> "json", body |-> "malformed"],
     [kind |-> "zip", body |-> "text"], [kind |-> "zip", body |-> "keyword"],
     [kind |-> "zip", body |-> "nonstring"], [kind |-> "zip", body |-> "noentry"],
     [kind |-> "zip", body |-> "corrupt"],
     [kind |-> "other", body |-> "none"]}

Text(words) == [isString |-> TRUE, text |-> words]

Returns(value) == [threw |-> FALSE, value |-> value]

Throws == [threw |-> TRUE, value |-> NoClassification]

\* choices[0].message.content of a body.
Content(body) ==
    CASE body = "text" -> Text({})
      [] body = "keyword" -> Text({"Beer"})
      [] OTHER -> NoClassification

\* ImageClassifier.extractZipResponse: never throws.
extractZipResponse(body) ==
    CASE body \in {"text", "keyword"} -> Content(body)
      [] body = "noentry" ->
            Text({"Classification failed - could not extract result from ZIP"})
      [] OTHER -> Text({"Classification failed - ZIP extraction error"})

\* ImageClassifier.sendClassificationRequest, given the reply to its fetch.
sendClassificationRequest(reply) ==
    CASE reply.kind \in {"network", "status"} -> Throws
      [] reply.kind = "json" ->
            IF reply.body = "malformed" THEN Throws ELSE Returns(Content(reply.body))
      [] reply.kind = "zip" -> Returns(extractZipResponse(reply.body))
      [] OTHER -> Returns(Text({"Classification failed - unknown response format"}))

\* After classifyImageDirect threw: uploadAsset and a second request.
AfterDirectFailure == "upload"

Request(method, reply) == [method |-> method, reply |-> reply]

\* classifyImageDirect settles: fs.readFile, then the request with the image
\* inline; an exception starts the asset upload.
DirectSettles(readable, reply) ==
    /\ classifierPc = "direct"
    /\ IF ~readable
       THEN /\ classifierPc' = AfterDirectFailure
            /\ UNCHANGED <<requests, settled>>
       ELSE /\ requests' = Append(requests, Request("direct", reply))
            /\ IF sendClassificationRequest(reply).threw
               THEN classifierPc' = AfterDirectFailure /\ UNCHANGED settled
               ELSE /\ classifierPc' = "settled"
                    /\ settled' = sendClassificationRequest(reply)
    /\ UNCHANGED <<streamVars, tickVars>>
    /\ UNCHANGED <<notifyVars, threatVars, notifierVars, cleanupVars, filterVars, fileVars,
      processVars>>

\* uploadAsset settles: the asset id, or "Failed to upload asset".
UploadSettles(uploaded) ==
    /\ classifierPc = "upload"
    /\ IF uploaded
       THEN classifierPc' = "asset" /\ UNCHANGED settled
       ELSE classifierPc' = "settled" /\ settled' = Throws
    /\ UNCHANGED requests
    /\ UNCHANGED <<streamVars, tickVars>>
    /\ UNCHANGED <<notifyVars, threatVars, notifierVars, cleanupVars, filterVars, fileVars,
      processVars>>

\* The request that refers to the uploaded asset settles.
AssetRequestSettles(reply) ==
    /\ classifierPc = "asset"
    /\ requests' = Append(requests, Request("asset", reply))
    /\ settled' = sendClassificationRequest(reply)
    /\ classifierPc' = "settled"
    /\ UNCHANGED <<streamVars, tickVars>>
    /\ UNCHANGED <<notifyVars, threatVars, notifierVars, cleanupVars, filterVars, fileVars,
      processVars>>

\* ClassificationService.classifyImage resumes with what the classifier
\* settled with.
ClassifierReturns(p) ==
    /\ classifierPc = "settled"
    /\ DescriptionSettles(p, settled)

DescribeNext ==
    \/ \E readable \in BOOLEAN, reply \in ApiReplies : DirectSettles(readable, reply)
    \/ \E uploaded \in BOOLEAN : UploadSettles(uploaded)
    \/ \E reply \in ApiReplies : AssetRequestSettles(reply)
    \/ \E p \in pipelines : ClassifierReturns(p)
    \/ \E p \in pipelines, ok \in BOOLEAN : SaveSettles(p, ok)
    \/ \E p \in pipelines, outcome \in {"true", "false", "threw"} :
          AlertSettles(p, outcome)

(***************************************************************************)
(* The frame file during the settle delay                                  *)
(***************************************************************************)
\* Between the fs.stat callback and the processDelayMs timer the frame file
\* is on disk with nobody holding it: the retention sweep's unlinkSync, or
\* anything else that writes to captured_frames, can empty or remove it.
FrameFileLost(p) ==
    /\ p \in pipelines /\ p.stage = "settle"
    /\ p.frame \notin lostFiles
    /\ lostFiles' = lostFiles \cup {p.frame}
    /\ UNCHANGED <<streamVars, tickVars, notifyVars, threatVars, notifierVars,
                   cleanupVars, classifierVars, filterVars, processVars>>

(***************************************************************************)
(* Graceful shutdown                                                       *)
(***************************************************************************)
\* process.on("SIGINT"): stopFrameCapture for every registered stream, then
\* process.exit(0), which ends every pending timer and callback.
Sigint ==
    /\ ~exited
    /\ stopped' = [k \in StreamKeys |-> stopped[k] \/ k \in DOMAIN activeStreams]
    /\ activeStreams' = <<>>
    /\ timers' = {}
    /\ pipelines' = {}
    /\ exited' = TRUE
    /\ UNCHANGED <<timerSeq, frameCount, startedTwice, allocated, unusable>>
    /\ UNCHANGED <<tickVars, notifyVars, threatVars, notifierVars, cleanupVars,
                   classifierVars, filterVars, fileVars>>

Next ==
    \/ \E k \in StreamKeys : startFrameCapture(k)
    \/ \E k \in StreamKeys : stopFrameCapture(k)
    \/ \E t \in timers : InitialTimeoutFires(t)
    \/ \E t \in timers : IntervalFires(t)
    \/ \E p \in pipelines, code \in {0, 1} : handleCaptureResult(p, code)
    \/ \E p \in pipelines, err \in BOOLEAN, size \in FileSizes : StatCallback(p, err, size)
    \/ \E p \in pipelines : SettleElapsed(p)
    \/ \E p \in pipelines : ClassifyImageSettles(p)

(***************************************************************************)
(* ThreatDetector: configuration and pattern tables                        *)
(***************************************************************************)
Max(a, b) == IF a >= b THEN a ELSE b

Min(a, b) == IF a <= b THEN a ELSE b

\* this.config.severityLevels
severityLevels ==
    [CRITICAL |-> 5, HIGH |-> 4, MEDIUM |-> 3, LOW |-> 2, NONE |-> 1]

\* notificationThreshold: config.notificationThreshold || 3
DefaultNotificationThreshold == 3

\* What a caller passes to new ThreatDetector(config): the keys it sets (given)
\* and their values.
DetectorConfigs ==
    [given : SUBSET {"notificationThreshold", "detailedAnalysis"},
     notificationThreshold : 1..5,
     detailedAnalysis : BOOLEAN]

\* The detector of IntelligentSecurityFilter (threshold 3, detailedAnalysis on).
ServerDetectorConfig ==
    [given |-> {"notificationThreshold", "detailedAnalysis"},
     notificationThreshold |-> 3, detailedAnalysis |-> TRUE]

\* ThreatDetector.constructor: the defaults, then the caller's keys.
Constructor(config) ==
    [notificationThreshold |->
        IF "notificationThreshold" \in config.given
        THEN config.notificationThreshold
        ELSE DefaultNotificationThreshold,
     detailedAnalysis |->
        IF "detailedAnalysis" \in config.given
        THEN config.detailedAnalysis
        ELSE TRUE]

\* _initializeThreatPatterns: every regular expression is the set of the words
\* and phrases it accepts between word boundaries ("a.{0,10}b" as "a b").
CriticalPatterns == <<
    {"gun", "weapon", "knife", "pistol", "rifle", "firearm", "armed", "shooting",
     "violence", "fight", "attack", "assault"},
    {"breaking", "smashing", "destroying", "vandal", "damage", "theft", "steal",
     "rob", "burglar"},
    {"fire", "smoke", "explosion", "emergency", "danger", "alarm"},
    {"breaking in", "breaking into", "breaking through", "forced entry",
     "intruder", "trespass"},
    {"climbing fence", "climbing wall", "climbing window", "jumping fence",
     "jumping barrier"} >>

HighPatterns == <<
    {"unauthorized", "suspicious person", "unknown individual", "stranger"},
    {"lurking", "hiding", "concealed", "sneaking", "prowling"},
    {"mask", "hood", "face covered", "disguise"},
    {"loitering", "lingering", "watching", "observing", "surveillance", "casing"},
    {"unusual activity", "strange behavior", "odd movement"},
    {"multiple people", "group gathering", "crowd"} >>

MediumPatterns == <<
    {"abandoned bag", "abandoned package", "abandoned object", "unattended item"},
    {"vehicle parked", "car stopped", "truck waiting"},
    {"at night", "after hours", "late evening", "dark"},
    {"running", "moving quickly", "hurried", "rushed"},
    {"back and forth", "pacing", "circling"} >>

NormalPatterns == <<
    {"employee", "worker", "staff", "security", "guard", "maintenance"},
    {"uniform", "badge", "identification", "authorized"},
    {"delivery", "service", "repair", "cleaning"},
    {"family", "children", "pet", "dog", "cat"},
    {"normal activity", "routine", "expected"} >>

\* The words a description is drawn from: two critical patterns, one high, one
\* medium, and all five normal patterns, the second with two of its words.
Vocabulary ==
    {"gun", "fire", "lurking", "running",
     "employee", "uniform", "badge", "delivery", "family", "routine"}

Texts == SUBSET Vocabulary

\* pattern.test(text)
Test(pattern, text) == pattern \cap text # {}

(***************************************************************************)
(* Pattern scorer                                                          *)
(***************************************************************************)
TierReason(level, i) ==
    CASE level = 5 -> "Critical threat pattern detected: #" \o ToString(i)
      [] level = 4 -> "High threat pattern detected: suspicious activity"
      [] OTHER     -> "Medium threat pattern detected: unusual activity"

\* A score that sums the levels of the matching patterns.
RaiseBy(maxScore, level) == maxScore + level

\* maxScore = Math.max(maxScore, level)
RaiseTo(maxScore, level) == Max(maxScore, level)

\* One for loop over a tier: every matching pattern raises maxScore, adds a reason.
RECURSIVE ScanTier(_, _, _, _, _)
ScanTier(patterns, i, text, level, acc) ==
    IF i > Len(patterns) THEN acc
    ELSE ScanTier(patterns, i + 1, text, level,
            IF Test(patterns[i], text)
            THEN [maxScore |-> RaiseTo(acc.maxScore, level),
                  reasons |-> Append(acc.reasons, TierReason(level, i))]
            ELSE acc)

\* A miscount: one indicator for every mitigating word of the text.
NormalIndicatorsPerWord(text) ==
    Cardinality({w \in text : \E i \in 1..Len(NormalPatterns) : w \in NormalPatterns[i]})

\* A miscount: one indicator for every matching pattern of any tier.
NormalIndicatorsAnyTier(text) ==
    Cardinality({i \in 1..Len(CriticalPatterns) : Test(CriticalPatterns[i], text)})
    + Cardinality({i \in 1..Len(HighPatterns) : Test(HighPatterns[i], text)})
    + Cardinality({i \in 1..Len(MediumPatterns) : Test(MediumPatterns[i], text)})
    + Cardinality({i \in 1..Len(NormalPatterns) : Test(NormalPatterns[i], text)})

\* let normalIndicators = 0; one more for every matching normal pattern.
NormalIndicators(text) ==
    Cardinality({i \in 1..Len(NormalPatterns) : Test(NormalPatterns[i], text)})

\* A missing floor: maxScore - normalIndicators.
MitigateNoFloor(maxScore, normalIndicators) == maxScore - normalIndicators

\* maxScore = Math.max(1, maxScore - normalIndicators)
Mitigate(maxScore, normalIndicators) == Max(1, maxScore - normalIndicators)

\* ThreatDetector._analyzePatterns on a text (a string: see analyzeThreat).
_analyzePatterns(text) ==
    LET start    == [maxScore |-> 1, reasons |-> <<>>]
        critical == ScanTier(CriticalPatterns, 1, text, 5, start)
        high     == ScanTier(HighPatterns, 1, text, 4, critical)
        medium   == ScanTier(MediumPatterns, 1, text, 3, high)
        normalIndicators == NormalIndicators(text)
    IN  IF normalIndicators > 0
        THEN [score |-> Mitigate(medium.maxScore, normalIndicators),
              reasons |-> Append(medium.reasons,
                  "Normal activity indicators found ("
                      \o ToString(normalIndicators) \o ")")]
        ELSE [score |-> medium.maxScore, reasons |-> medium.reasons]

(***************************************************************************)
(* Contextual scorer                                                       *)
(***************************************************************************)
\* const securityKeywords = [...]
SecurityKeywords ==
    {"suspicious", "threat", "danger", "weapon", "break", "intrude",
     "unauthorized", "steal", "vandal", "alarm"}

\* The words of the vocabulary a reply of the description service holds.
ReplyWords == {"suspicious", "weapon"}

\* What follows "THREAT_LEVEL:" in a reply ("absent": no such token).
LevelTokens == {"absent", "NONE", "LOW", "MEDIUM", "HIGH", "CRITICAL", "SEVERE"}

\* The empty output.
NoReply ==
    [level |-> "absent", confidence |-> FALSE, reason |-> FALSE, keywords |-> {},
     length |-> 0]

\* The outputs of the analysis process over a set of vocabulary words: the
\* level token, whether the CONFIDENCE and REASON fields are there, the
\* vocabulary words the output holds and whether it has any text at all.
RepliesOver(words) ==
    {NoReply} \cup
    [level : LevelTokens, confidence : BOOLEAN, reason : BOOLEAN,
     keywords : SUBSET words, length : {1}]

Replies == RepliesOver(ReplyWords)

\* How _performAISecurityAnalysis settles: the process cannot start ("error"),
\* or closes with an exit code and, on 0, its output.
ContextOutcomes ==
    {[kind |-> "error", code |-> 1, reply |-> NoReply],
     [kind |-> "close", code |-> 1, reply |-> NoReply]}
    \cup {[kind |-> "close", code |-> 0, reply |-> r] : r \in Replies}

Rejected(outcome) == outcome.kind = "error" \/ outcome.code # 0

\* A table lookup that answers with the default for every token.
LevelScoreDefault(token) == 1

\* this.config.severityLevels[threatLevel] || 1
LevelScore(token) ==
    IF token \in DOMAIN severityLevels THEN severityLevels[token] ELSE 1

\* foundKeywords.join(', ') in the order of securityKeywords.
RECURSIVE JoinWords(_)
JoinWords(words) ==
    IF words = {} THEN ""
    ELSE LET w == CHOOSE x \in words : TRUE
         IN  w \o (IF words = {w} THEN "" ELSE ", ") \o JoinWords(words \ {w})

\* ThreatDetector._parseAISecurityAnalysis
_parseAISecurityAnalysis(reply) ==
    LET threatMatch == reply.level # "absent"
        score1   == IF threatMatch THEN LevelScore(reply.level) ELSE 0
        factors1 == IF threatMatch
                    THEN <<"AI threat assessment: " \o reply.level>> ELSE <<>>
        factors2 == IF reply.confidence
                    THEN Append(factors1, "AI confidence") ELSE factors1
        factors3 == IF reply.reason
                    THEN Append(factors2, "AI reasoning") ELSE factors2
        foundKeywords == reply.keywords \cap SecurityKeywords
    IN  IF ~threatMatch /\ reply.length > 0 /\ foundKeywords # {}
        THEN [score |-> Min(Cardinality(foundKeywords) + 1, 5),
              factors |-> Append(factors3,
                  "AI detected security keywords: " \o JoinWords(foundKeywords))]
        ELSE [score |-> score1, factors |-> factors3]

\* A failed call that is scored as a medium threat.
ContextUnavailableAsMedium(outcome) ==
    [score |-> 3, factors |-> <<"Contextual analysis unavailable: " \o outcome.kind>>]

\* The catch of _analyzeContext.
ContextUnavailable(outcome) ==
    [score |-> 0, factors |-> <<"Contextual analysis unavailable: " \o outcome.kind>>]

\* ThreatDetector._analyzeContext, once _performAISecurityAnalysis has settled.
_analyzeContext(outcome) ==
    IF Rejected(outcome) THEN ContextUnavailable(outcome)
    ELSE _parseAISecurityAnalysis(outcome.reply)

(***************************************************************************)
(* Threat assessment engine                                                *)
(***************************************************************************)
\* An off-by-one projection: > where the code has >=.
_calculateThreatLevelStrict(score) ==
    IF score > 5 THEN "CRITICAL"
    ELSE IF score > 4 THEN "HIGH"
    ELSE IF score > 3 THEN "MEDIUM"
    ELSE IF score > 2 THEN "LOW"
    ELSE "NONE"

\* ThreatDetector._calculateThreatLevel
_calculateThreatLevel(score) ==
    IF score >= 5 THEN "CRITICAL"
    ELSE IF score >= 4 THEN "HIGH"
    ELSE IF score >= 3 THEN "MEDIUM"
    ELSE IF score >= 2 THEN "LOW"
    ELSE "NONE"

\* A bonus given when either method alone is above the baseline: || for &&.
_calculateConfidenceEitherAbove(pattern, context) ==
    Min(100,
        (IF Len(pattern.reasons) > 0 THEN 40 ELSE 0)
        + (IF Len(context.factors) > 0 THEN 40 ELSE 0)
        + (IF pattern.score > 1 \/ context.score > 1 THEN 20 ELSE 0))

\* ThreatDetector._calculateConfidence
_calculateConfidence(pattern, context) ==
    Min(100,
        (IF Len(pattern.reasons) > 0 THEN 40 ELSE 0)
        + (IF Len(context.factors) > 0 THEN 40 ELSE 0)
        + (IF pattern.score > 1 /\ context.score > 1 THEN 20 ELSE 0))

\* ThreatDetector._getRecommendedAction
_getRecommendedAction(threatLevel) ==
    CASE threatLevel = "CRITICAL" -> "immediate_response"
      [] threatLevel = "HIGH"     -> "investigate_immediately"
      [] threatLevel = "MEDIUM"   -> "monitor_closely"
      [] threatLevel = "LOW"      -> "log_for_review"
      [] OTHER                    -> "none"

\* A strict comparison: > where the code has >=.
ThreatDetectedStrict(finalScore) == finalScore > detector.notificationThreshold

\* analysis.threat_detected = finalScore >= this.config.notificationThreshold
ThreatDetected(finalScore) == finalScore >= detector.notificationThreshold

\* A final score that adds the two scores.
FinalScoreSum(patternScore, contextScore) == patternScore + contextScore

\* const finalScore = Math.max(patternAnalysis.score, contextAnalysis.score)
FinalScore(patternScore, contextScore) == Max(patternScore, contextScore)

\* The tail of the try block of analyzeThreat: combine the two analyses.
Assessment(pattern, context) ==
    LET finalScore  == FinalScore(pattern.score, context.score)
        threatLevel == _calculateThreatLevel(finalScore)
    IN  [threat_detected |-> ThreatDetected(finalScore),
         threat_level |-> threatLevel,
         threat_score |-> finalScore,
         threat_reasons |-> pattern.reasons \o context.factors,
         confidence |-> _calculateConfidence(pattern, context),
         recommended_action |-> _getRecommendedAction(threatLevel)]

\* An error assessment that keeps the defaults of the analysis object.
ErrorAssessmentAsDefault(message) ==
    [threat_detected |-> FALSE, threat_level |-> "NONE", threat_score |-> 1,
     threat_reasons |-> <<>>, confidence |-> 0, recommended_action |-> "none"]

\* The catch block of analyzeThreat.
ErrorAssessment(message) ==
    [threat_detected |-> FALSE, threat_level |-> "ERROR", threat_score |-> 0,
     threat_reasons |-> <<"Analysis error: " \o message>>,
     confidence |-> 0, recommended_action |-> "manual_review"]

\* ThreatDetector.shouldTriggerNotification
shouldTriggerNotification(threatAnalysis) ==
    /\ threatAnalysis.threat_detected
    /\ threatAnalysis.threat_score >= detector.notificationThreshold

(***************************************************************************)
(* analyzeThreat                                                           *)
(***************************************************************************)
\* The classification results analyzeThreat is called with: objects whose
\* classification is a text, or is missing (isString = FALSE).
ClassificationResults ==
    {[isString |-> TRUE, classification |-> t, image_file |-> "frame-1.jpg"] : t \in Texts}
    \cup {[isString |-> FALSE, classification |-> {}, image_file |-> "frame-1.jpg"]}

NoContext == [score |-> 0, factors |-> <<>>]

NoAnalysis ==
    [threat_detected |-> FALSE, threat_level |-> "PENDING", threat_score |-> 0,
     threat_reasons |-> <<>>, confidence |-> 0, recommended_action |-> "pending"]

\* classificationText.toLowerCase() on a value that is no string.
TypeErrorMessage == "Cannot read properties of undefined (reading 'toLowerCase')"

ThreatIdle ==
    /\ pc = "idle"
    /\ classificationResult =
          [isString |-> FALSE, classification |-> {}, image_file |-> ""]
    /\ patternAnalysis = [score |-> 0, reasons |-> <<>>]
    /\ contextAnalysis = NoContext
    /\ contextCall = "none"
    /\ analysisOutput = NoReply
    /\ thrown = ""
    /\ analysis = NoAnalysis

\* A detector that consults the contextual scorer whatever its configuration.
ContextEnabledAlways == TRUE

\* if (this.config.detailedAnalysis)
ContextEnabled == detector.detailedAnalysis

\* analyzeThreat up to its first await (or to its return, when there is none).
analyzeThreatCalled(input) ==
    /\ pc = "idle"
    /\ classificationResult' = input
    /\ IF ~input.isString
       THEN \* _analyzePatterns throws; the catch block returns
            /\ thrown' = TypeErrorMessage
            /\ analysis' = ErrorAssessment(TypeErrorMessage)
            /\ pc' = "returned"
            /\ UNCHANGED <<patternAnalysis, contextAnalysis>>
       ELSE /\ patternAnalysis' = _analyzePatterns(input.classification)
            /\ IF ContextEnabled
               THEN /\ pc' = "context"
                    /\ UNCHANGED <<contextAnalysis, contextCall, thrown, analysis>>
               ELSE /\ analysis' = Assessment(patternAnalysis', contextAnalysis)
                    /\ pc' = "returned"
                    /\ UNCHANGED <<contextAnalysis, thrown>>
    /\ UNCHANGED <<detector, contextCall, analysisOutput>>

\* A call of analyzeThreat on its own.
analyzeThreat(input) == analyzeThreatCalled(input) /\ UNCHANGED offThreat

\* await this._analyzeContext(...) settles and analyzeThreat runs to its return.
analyzeThreatSettled(outcome) ==
    /\ pc = "context"
    /\ contextCall' =
          IF Rejected(outcome) THEN outcome.kind
          ELSE IF outcome.reply.level = "absent"
                  /\ outcome.reply.keywords \cap SecurityKeywords = {}
               THEN "unscored" ELSE "scored"
    /\ contextAnalysis' = _analyzeContext(outcome)
    /\ analysis' = Assessment(patternAnalysis, contextAnalysis')
    /\ pc' = "returned"
    /\ UNCHANGED <<detector, classificationResult, patternAnalysis, thrown,
                   analysisOutput>>

analyzeThreatResumes(outcome) == analyzeThreatSettled(outcome) /\ UNCHANGED offThreat

\* The vocabulary words of the outputs given to the parser on its own.
ParsedWords == {"suspicious", "threat", "danger", "weapon", "break"}

\* _parseAISecurityAnalysis on its own.
parseAISecurityAnalysisCalled(output) ==
    /\ analysisOutput' = output
    /\ contextAnalysis' = _parseAISecurityAnalysis(output)
    /\ UNCHANGED <<detector, pc, classificationResult, patternAnalysis, contextCall,
                   thrown, analysis>>
    /\ UNCHANGED offThreat

ParseNext == \E output \in RepliesOver(ParsedWords) : parseAISecurityAnalysisCalled(output)

ThreatNext ==
    \/ \E input \in ClassificationResults : analyzeThreat(input)
    \/ \E outcome \in ContextOutcomes : analyzeThreatResumes(outcome)

(***************************************************************************)
(* Classifier output, Intelligent Security Filter, Notification Service    *)
(* (the build of server.ts that runs the Python classifier)                *)
(***************************************************************************)
\* The CLASSIFICATION_RESULT lines the classifier prints: a description, or a
\* failure report.
ParsedResults ==
    {[success |-> TRUE, result |-> r] : r \in ClassificationResults}
    \cup {[success |-> FALSE,
           result |-> [isString |-> FALSE, classification |-> {},
                       image_file |-> "frame-1.jpg"]]}

\* The line SummaryLogger.saveResult appends: the result as it is at the call.
logEntry(result, stored) ==
    [frame |-> result.image_file, success |-> TRUE, _threatAnalysis |-> stored]

\* IntelligentSecurityFilter.shouldTriggerNotification answering as its catch
\* block does.
FilterDecisionFallback(threatAnalysis) == serverConfig.notifications

\* IntelligentSecurityFilter.shouldTriggerNotification, after the await.
FilterDecision(threatAnalysis) == shouldTriggerNotification(threatAnalysis)

\* One CLASSIFICATION_RESULT line is parsed; on success the result is logged
\* and sendClassificationNotification runs up to its await.
_parseClassificationOutput(parsed) ==
    /\ notifyPc = "idle"
    /\ IF ~parsed.success
       THEN /\ failedDescriptions' = failedDescriptions \cup {parsed.result.image_file}
            /\ notifyPc' = "done"
            /\ UNCHANGED <<summaryLog, threatVars>>
       ELSE /\ summaryLog' = Append(summaryLog, logEntry(parsed.result, _threatAnalysis))
            /\ UNCHANGED failedDescriptions
            /\ IF ~serverConfig.notifications
               THEN /\ notifyPc' = "done"
                    /\ UNCHANGED threatVars
               ELSE /\ notifyPc' = "assessing"
                    /\ analyzeThreatCalled(parsed.result)
    /\ UNCHANGED <<serverConfig, classification, resultFiles, alerts, undelivered,
                   _threatAnalysis>>
    /\ UNCHANGED <<streamVars, notifierVars, cleanupVars, classifierVars, filterVars, fileVars,
      processVars>>

\* The contextual scorer settles inside the pending analyzeThreat.
AssessmentSettles(outcome) ==
    /\ notifyPc = "assessing"
    /\ analyzeThreatSettled(outcome)
    /\ UNCHANGED <<tickVars, notifyVars>>
    /\ UNCHANGED <<streamVars, notifierVars, cleanupVars, classifierVars, filterVars, fileVars,
      processVars>>

\* analyzeThreat has returned: the assessment is stored on the result and
\* sendClassificationNotification spawns sms.py or skips the notification.
NotificationResumes ==
    /\ notifyPc = "assessing"
    /\ pc = "returned"
    /\ _threatAnalysis' = [defined |-> TRUE, value |-> analysis]
    /\ alerts' = IF FilterDecision(analysis)
                 THEN alerts \cup {classificationResult.image_file}
                 ELSE alerts
    /\ notifyPc' = "done"
    /\ UNCHANGED <<serverConfig, classification, summaryLog, resultFiles,
                   failedDescriptions, undelivered>>
    /\ UNCHANGED <<streamVars, threatVars, notifierVars, cleanupVars, classifierVars,
                   filterVars, fileVars,
      processVars>>

NotifyNext ==
    \/ \E parsed \in ParsedResults : _parseClassificationOutput(parsed)
    \/ \E outcome \in ContextOutcomes : AssessmentSettles(outcome)
    \/ NotificationResumes

(***************************************************************************)
(* SafetyAlertNotifier (telegramNotifier.ts)                               *)
(***************************************************************************)
\* options.image: left out, the empty string, or the path of a frame.
Images == {"undefined", "", "captured_frames/frame-1.jpg"}

\* options.severity: left out, or one of the four levels.
Severities == {"undefined", "LOW", "MEDIUM", "HIGH", "CRITICAL"}

SafetyAlertOptions == [image : Images, severity : Severities]

\* How a request to the Bot API settles: response.ok && result.ok ("ok"), a
\* reply that is not ok ("refused"), or fetch / response.json() rejecting.
TelegramOutcomes == {"ok", "refused", "threw"}

\* const severity = options.severity || "MEDIUM"
Severity(options) ==
    IF options.severity = "undefined" THEN "MEDIUM" ELSE options.severity

\* options.image && existsSync(options.image)
HasEvidence(options, exists) == options.image \notin {"undefined", ""} /\ exists

\* sendPhoto and sendMessage: true on response.ok && result.ok, false on any
\* other reply and in their catch blocks.
Succeeded(outcome) == outcome = "ok"

\* A rejected request that leaves sendPhoto / sendMessage as an exception.
EscapesUncaught(outcome) == outcome = "threw"

\* catch (error) { console.log(...); return false; } in sendPhoto and
\* sendMessage: no outcome of a request leaves them as an exception.
Escapes(outcome) == FALSE

\* A photo failure that is returned as it is, with no text alert.
AfterPhotoNoFallback(success) == "returned"

\* if (!success) return await this.sendMessage(alertMessage); return true;
AfterPhoto(success) == IF success THEN "returned" ELSE "message"

NotifierIdle ==
    /\ notifierPc = "idle"
    /\ alertOptions = [image |-> "undefined", severity |-> "undefined"]
    /\ evidenceOnDisk = FALSE
    /\ sent = <<>>
    /\ delivered = FALSE

\* SafetyAlertNotifier.sendSafetyAlert up to its first await: the photo request
\* (sendPhoto finds the file it was just told exists) or the text request.
sendSafetyAlert(options, exists) ==
    /\ notifierPc \in {"idle", "returned"}
    /\ alertOptions' = options
    /\ evidenceOnDisk' = exists
    /\ sent' = <<>>
    /\ delivered' = FALSE
    /\ notifierPc' = IF HasEvidence(options, exists) THEN "photo" ELSE "message"
    /\ UNCHANGED offNotifier

\* await this.sendPhoto(...) settles: return true, or go on to the text alert.
PhotoSettles(outcome) ==
    /\ notifierPc = "photo"
    /\ sent' = Append(sent, [method |-> "sendPhoto", outcome |-> outcome,
                             priority |-> Severity(alertOptions)])
    /\ delivered' = Succeeded(outcome)
    /\ notifierPc' = IF Escapes(outcome) THEN "threw" ELSE AfterPhoto(Succeeded(outcome))
    /\ UNCHANGED <<alertOptions, evidenceOnDisk>>
    /\ UNCHANGED offNotifier

\* await this.sendMessage(...) settles and sendSafetyAlert returns its result.
MessageSettles(outcome) ==
    /\ notifierPc = "message"
    /\ sent' = Append(sent, [method |-> "sendMessage", outcome |-> outcome,
                             priority |-> Severity(alertOptions)])
    /\ delivered' = Succeeded(outcome)
    /\ notifierPc' = IF Escapes(outcome) THEN "threw" ELSE "returned"
    /\ UNCHANGED <<alertOptions, evidenceOnDisk>>
    /\ UNCHANGED offNotifier

NotifierNext ==
    \/ \E options \in SafetyAlertOptions, exists \in BOOLEAN :
          sendSafetyAlert(options, exists)
    \/ \E outcome \in TelegramOutcomes : PhotoSettles(outcome)
    \/ \E outcome \in TelegramOutcomes : MessageSettles(outcome)

(***************************************************************************)
(* File Cleanup Service                                                    *)
(***************************************************************************)
\* A file name as its parts, "frame-" "1" ".jpg" for frame-1.jpg. The frames
\* and result records a directory may hold when a sweep starts, the one a
\* capture adds while the sweep runs, and the files of other kinds.
Stems == {"1", "2", "3"}

NewStem == "4"

\* const filename = `frame-${frameCount}-${timestamp}.jpg`
FrameName(stem) == <<"frame-", stem, ".jpg">>

\* `${path.parse(imageFilename).name}_classification.json`
ResultName(stem) == <<"frame-", stem, "_classification.json">>

OtherNames == {<<"notes", ".txt">>, <<"latest", ".jpg">>}

SummaryLogName == <<"classification_summary", ".jsonl">>

\* Modification times, oldest first; a file written now has the latest.
Mtimes == {1, 2}

Now == 2

\* What earlier captures left on disk: for every frame number whether its
\* frame and its result record are there, and when they were written.
Layouts == [Stems -> [frame : BOOLEAN, record : BOOLEAN, mtime : Mtimes]]

\* The frames directory of a layout, with a file of another kind, the oldest.
FramesOf(layout) ==
    [f \in {FrameName(i) : i \in {j \in Stems : layout[j].frame}} \cup OtherNames |->
        IF f \in OtherNames THEN 1 ELSE layout[f[2]].mtime]

\* The results directory of a layout, with the summary log, the oldest.
ResultsOf(layout) ==
    [f \in {ResultName(i) : i \in {j \in Stems : layout[j].record}}
            \cup {SummaryLogName} |->
        IF f = SummaryLogName THEN 1 ELSE layout[f[2]].mtime]

Range(seq) == {seq[i] : i \in DOMAIN seq}

Remove(dir, names) == [f \in DOMAIN dir \ names |-> dir[f]]

\* f.startsWith(prefix), f.endsWith(suffix)
startsWith(f, prefix) == f[1] = prefix

endsWith(f, suffix) == f[Len(f)] = suffix

\* .filter((f) => f.startsWith("frame-"))
IsFrameFile(f) == startsWith(f, "frame-")

\* A filter that lets every file of the directory through.
IsClassificationFileAny(f) == TRUE

\* .filter((f) => f.endsWith("_classification.json"))
IsClassificationFile(f) == endsWith(f, "_classification.json")

\* A sort that puts the newest first: b.time - a.time.
SortedByTimeDescending(names, dir) ==
    {order \in [1..Cardinality(names) -> names] :
        \A i, j \in 1..Cardinality(names) :
           i < j => order[i] # order[j] /\ dir[order[i]] >= dir[order[j]]}

\* .sort((a, b) => a.time.getTime() - b.time.getTime()): the orders the stable
\* sort gives, files of one mtime staying in the order readdir listed them.
SortedByTime(names, dir) ==
    {order \in [1..Cardinality(names) -> names] :
        \A i, j \in 1..Cardinality(names) :
           i < j => order[i] # order[j] /\ dir[order[i]] <= dir[order[j]]}

\* array.slice(0, end)
Slice(array, end) ==
    SubSeq(array, 1, IF end < 0 THEN Max(Len(array) + end, 0)
                     ELSE Min(end, Len(array)))

\* if (files.length > maxFiles) files.slice(0, files.length - maxFiles)
FilesToDelete(sorted) ==
    IF Len(sorted) > maxFiles THEN Slice(sorted, Len(sorted) - maxFiles) ELSE <<>>

\* filesToDelete.forEach with its try / catch: one line for every file, the
\* deletion or its failure.
ForEachLogged(filesToDelete, failing, what) ==
    [i \in 1..Len(filesToDelete) |->
        [line |-> IF filesToDelete[i] \in failing
                  THEN "Failed to delete" ELSE "Deleted old " \o what,
         file |-> filesToDelete[i]]]

NotSwept == [done |-> FALSE, err |-> FALSE, listed |-> <<>>, toDelete |-> {},
             failing |-> {}]

NoReaddir == [due |-> FALSE, files |-> {}]

CleanupIdle ==
    /\ readdirs = [frames |-> NoReaddir, results |-> NoReaddir]
    /\ sweepLog = <<>>
    /\ swept = [frames |-> NotSwept, results |-> NotSwept]
    /\ written = {}
    /\ uncaught = FALSE

\* FileCleanupService.cleanupOldFiles: both directories are read.
cleanupOldFiles ==
    /\ ~uncaught
    /\ ~readdirs.frames.due /\ ~readdirs.results.due
    /\ readdirs' = [frames |-> [due |-> TRUE, files |-> DOMAIN captureDir],
                    results |-> [due |-> TRUE, files |-> DOMAIN classificationDir]]
    /\ sweepLog' = <<>>
    /\ swept' = [frames |-> NotSwept, results |-> NotSwept]
    /\ UNCHANGED <<captureDir, classificationDir, written, uncaught>>
    /\ UNCHANGED offCleanup

\* The callback of fs.readdir(captureDir, ...) in _cleanupFrames.
_cleanupFrames(err) ==
    /\ ~uncaught
    /\ readdirs.frames.due
    /\ readdirs' = [readdirs EXCEPT !.frames = NoReaddir]
    /\ IF err
       THEN /\ swept' = [swept EXCEPT !.frames = [NotSwept EXCEPT !.done = TRUE,
                                                                  !.err = TRUE]]
            /\ UNCHANGED <<captureDir, sweepLog>>
       ELSE LET frameFiles == {f \in readdirs.frames.files : IsFrameFile(f)}
            IN  \E sorted \in SortedByTime(frameFiles, captureDir) :
                \E failing \in SUBSET Range(FilesToDelete(sorted)) :
                   /\ captureDir' =
                         Remove(captureDir, Range(FilesToDelete(sorted)) \ failing)
                   /\ sweepLog' = sweepLog \o
                         ForEachLogged(FilesToDelete(sorted), failing, "frame")
                   /\ swept' = [swept EXCEPT !.frames =
                         [done |-> TRUE, err |-> FALSE,
                          listed |-> [f \in frameFiles |-> captureDir[f]],
                          toDelete |-> Range(FilesToDelete(sorted)),
                          failing |-> failing]]
    /\ UNCHANGED <<classificationDir, written, uncaught>>
    /\ UNCHANGED offCleanup

\* The callback of fs.readdir(classificationDir, ...) in
\* _cleanupClassificationResults.
_cleanupClassificationResults(err) ==
    /\ ~uncaught
    /\ readdirs.results.due
    /\ readdirs' = [readdirs EXCEPT !.results = NoReaddir]
    /\ IF err
       THEN /\ swept' = [swept EXCEPT !.results = [NotSwept EXCEPT !.done = TRUE,
                                                                   !.err = TRUE]]
            /\ UNCHANGED <<classificationDir, sweepLog>>
       ELSE LET jsonFiles == {f \in readdirs.results.files : IsClassificationFile(f)}
            IN  \E sorted \in SortedByTime(jsonFiles, classificationDir) :
                \E failing \in SUBSET Range(FilesToDelete(sorted)) :
                   /\ classificationDir' =
                         Remove(classificationDir,
                                Range(FilesToDelete(sorted)) \ failing)
                   /\ sweepLog' = sweepLog \o
                         ForEachLogged(FilesToDelete(sorted), failing, "classification")
                   /\ swept' = [swept EXCEPT !.results =
                         [done |-> TRUE, err |-> FALSE,
                          listed |-> [f \in jsonFiles |-> classificationDir[f]],
                          toDelete |-> Range(FilesToDelete(sorted)),
                          failing |-> failing]]
    /\ UNCHANGED <<captureDir, written, uncaught>>
    /\ UNCHANGED offCleanup

\* A capture writes its frame while a sweep is under way.
FrameWritten ==
    /\ ~uncaught
    /\ FrameName(NewStem) \notin written
    /\ written' = written \cup {FrameName(NewStem)}
    /\ captureDir' = (FrameName(NewStem) :> Now) @@ captureDir
    /\ UNCHANGED <<classificationDir, readdirs, sweepLog, swept, uncaught>>
    /\ UNCHANGED offCleanup

\* saveClassificationResult writes a result record while a sweep is under way.
ResultWritten ==
    /\ ~uncaught
    /\ ResultName(NewStem) \notin written
    /\ written' = written \cup {ResultName(NewStem)}
    /\ classificationDir' = (ResultName(NewStem) :> Now) @@ classificationDir
    /\ UNCHANGED <<captureDir, readdirs, sweepLog, swept, uncaught>>
    /\ UNCHANGED offCleanup

CleanupNext ==
    \/ cleanupOldFiles
    \/ \E err \in BOOLEAN : _cleanupFrames(err)
    \/ \E err \in BOOLEAN : _cleanupClassificationResults(err)
    \/ FrameWritten
    \/ ResultWritten

(***************************************************************************)
(* Legacy server (server.js): cleanupOldFiles                              *)
(***************************************************************************)
\* filesToDelete.forEach((file) => { fs.unlinkSync(file.path); ... }): the
\* files before the first one whose deletion throws.
RECURSIVE UnlinkedBeforeThrow(_, _)
UnlinkedBeforeThrow(filesToDelete, failing) ==
    IF filesToDelete = <<>> \/ Head(filesToDelete) \in failing THEN <<>>
    ELSE <<Head(filesToDelete)>> \o UnlinkedBeforeThrow(Tail(filesToDelete), failing)

\* The body of a readdir callback of the legacy cleanupOldFiles: the directory
\* it leaves, its console lines, what it chose, and whether unlinkSync threw.
LegacySweep(files, dir, sorted, failing, what) ==
    IF Cardinality(files) > legacyMaxFiles
    THEN LET filesToDelete == Slice(sorted, Len(sorted) - legacyMaxFiles)
             unlinked == UnlinkedBeforeThrow(filesToDelete, failing)
         IN  [dir |-> Remove(dir, Range(unlinked)),
              lines |-> ForEachLogged(unlinked, {}, what),
              toDelete |-> Range(filesToDelete),
              threw |-> Len(unlinked) < Len(filesToDelete)]
    ELSE [dir |-> dir, lines |-> <<>>, toDelete |-> {}, threw |-> FALSE]

\* The first readdir callback of the legacy cleanupOldFiles (frames).
LegacyCleanupFrames(err) ==
    /\ ~uncaught
    /\ readdirs.frames.due
    /\ readdirs' = [readdirs EXCEPT !.frames = NoReaddir]
    /\ IF err
       THEN /\ swept' = [swept EXCEPT !.frames = [NotSwept EXCEPT !.done = TRUE,
                                                                  !.err = TRUE]]
            /\ UNCHANGED <<captureDir, sweepLog, uncaught>>
       ELSE LET files == readdirs.frames.files
                frameFiles == {f \in files : IsFrameFile(f)}
            IN  \E sorted \in SortedByTime(frameFiles, captureDir) :
                \E failing \in SUBSET Range(sorted) :
                   LET sweep == LegacySweep(files, captureDir, sorted, failing, "frame")
                   IN  /\ failing \subseteq sweep.toDelete
                       /\ captureDir' = sweep.dir
                       /\ sweepLog' = sweepLog \o sweep.lines
                       /\ uncaught' = sweep.threw
                       /\ swept' = [swept EXCEPT !.frames =
                             [done |-> TRUE, err |-> FALSE,
                              listed |-> [f \in frameFiles |-> captureDir[f]],
                              toDelete |-> sweep.toDelete,
                              failing |-> failing]]
    /\ UNCHANGED <<classificationDir, written>>
    /\ UNCHANGED offCleanup

\* The second readdir callback of the legacy cleanupOldFiles (results).
LegacyCleanupResults(err) ==
    /\ ~uncaught
    /\ readdirs.results.due
    /\ readdirs' = [readdirs EXCEPT !.results = NoReaddir]
    /\ IF err
       THEN /\ swept' = [swept EXCEPT !.results = [NotSwept EXCEPT !.done = TRUE,
                                                                   !.err = TRUE]]
            /\ UNCHANGED <<classificationDir, sweepLog, uncaught>>
       ELSE LET files == readdirs.results.files
                jsonFiles == {f \in files : IsClassificationFile(f)}
            IN  \E sorted \in SortedByTime(jsonFiles, classificationDir) :
                \E failing \in SUBSET Range(sorted) :
                   LET sweep == LegacySweep(files, classificationDir, sorted, failing,
                                            "classification")
                   IN  /\ failing \subseteq sweep.toDelete
                       /\ classificationDir' = sweep.dir
                       /\ sweepLog' = sweepLog \o sweep.lines
                       /\ uncaught' = sweep.threw
                       /\ swept' = [swept EXCEPT !.results =
                             [done |-> TRUE, err |-> FALSE,
                              listed |-> [f \in jsonFiles |-> classificationDir[f]],
                              toDelete |-> sweep.toDelete,
                              failing |-> failing]]
    /\ UNCHANGED <<captureDir, written>>
    /\ UNCHANGED offCleanup

LegacyCleanupNext ==
    \/ cleanupOldFiles
    \/ \E err \in BOOLEAN : LegacyCleanupFrames(err)
    \/ \E err \in BOOLEAN : LegacyCleanupResults(err)
    \/ FrameWritten
    \/ ResultWritten

(***************************************************************************)
(* Claims about the stream session manager (Spec)                          *)
(***************************************************************************)
\* A capture pipeline for stream k starts in this step.
CaptureStarts(k) == \E p \in pipelines' \ pipelines : p.key = k

\* C1: once stopFrameCapture(k) has returned, no capture pipeline for k starts
\* until the next startFrameCapture(k), whichever timer would start it.
C1_NoCaptureAfterStop ==
    [][\A k \in StreamKeys : stopped[k] => ~CaptureStarts(k)]_vars

\* C28: every capture tick that fires for a stream with a session was
\* scheduled by that session: the one-shot timer that fires is the one the
\* session set just before its recurring timer, and the only recurring timer
\* of the stream is the one the registry holds, so a session restarted after
\* a stop never gets a tick from the timers of the stopped one.
C28_TicksOfCurrentSession ==
    [][\A k \in DOMAIN activeStreams :
          /\ \A t \in timers :
                (t.kind = "interval" /\ t.key = k) => t.id = activeStreams[k]
          /\ CaptureStarts(k) =>
                \A t \in timers \ timers' : t.id + 1 = activeStreams[k]
      ]_vars

\* stopFrameCapture(k) runs in this step (on a key not stopped already).
Stops(k) == ~stopped[k] /\ stopped'[k]

TimersOf(k) == {t \in timers : t.key = k}

\* C36: stopFrameCapture(k) leaves the registry entry and the timers of every
\* other stream as they are, and when k has no session it leaves the whole
\* registry and all timers as they are.
C36_StopAffectsOnlyItsStream ==
    [][\A k \in StreamKeys :
          Stops(k) =>
             /\ \A j \in StreamKeys \ {k} :
                   /\ j \in DOMAIN activeStreams' <=> j \in DOMAIN activeStreams
                   /\ j \in DOMAIN activeStreams =>
                         activeStreams'[j] = activeStreams[j]
                   /\ {t \in timers' : t.key = j} = TimersOf(j)
             /\ k \notin DOMAIN activeStreams =>
                   activeStreams' = activeStreams /\ timers' = timers
      ]_vars

\* C36 witness: live/a was stopped while live/b has its session and its
\* recurring timer.
C36_Witness ==
    /\ stopped["live/a"]
    /\ "live/a" \notin DOMAIN activeStreams
    /\ "live/b" \in DOMAIN activeStreams
    /\ \E t \in TimersOf("live/b") : t.kind = "interval" /\ t.id = activeStreams["live/b"]

IntervalTimers(k) == {t \in timers : t.kind = "interval" /\ t.key = k}

\* C37: the registry holds a handle for a stream key exactly when a recurring
\* timer of that key is live, and the handle is that timer: no live recurring
\* timer is missing from the registry, no entry holds a cancelled timer.
C37_RegistryMatchesLiveTimers ==
    \A k \in StreamKeys :
        /\ k \in DOMAIN activeStreams <=> IntervalTimers(k) # {}
        /\ \A t \in IntervalTimers(k) : activeStreams[k] = t.id

\* C37 witness: after a stop and a restart of live/a and an interrupt, no
\* registry entry and no timer is left.
C37_Witness ==
    /\ exited
    /\ timerSeq = 2 * MaxSessions
    /\ stopped["live/a"]
    /\ activeStreams = <<>>
    /\ timers = {}

\* C2: for every stream key at most one capture pipeline is in flight.
C2_OnePipelinePerStream ==
    \A k \in StreamKeys : Cardinality({p \in pipelines : p.key = k}) <= 1

\* C3: every stream key has at most one session (one live recurring timer, the
\* one the registry holds), and while a session for k exists no step schedules
\* a timer for k or changes the handle the registry holds for k.
C3_IdempotentStart ==
    /\ [](\A k \in StreamKeys :
            /\ Cardinality(IntervalTimers(k)) <= 1
            /\ k \in DOMAIN activeStreams =>
                  IntervalTimers(k) =
                      {[id |-> activeStreams[k], kind |-> "interval", key |-> k]})
    /\ [][\A k \in StreamKeys :
            k \in DOMAIN activeStreams =>
               /\ \A t \in timers' \ timers : t.key # k
               /\ k \in DOMAIN activeStreams' => activeStreams'[k] = activeStreams[k]]_vars

\* C3 witness: startFrameCapture ran for a path that was already capturing,
\* and its session is still the registered one.
C3_Witness ==
    /\ startedTwice
    /\ "live/a" \in DOMAIN activeStreams
    /\ Cardinality(IntervalTimers("live/a")) = 1

(***************************************************************************)
(* Claims about the threat detector (ThreatSpec)                           *)
(***************************************************************************)
\* The pattern scorer has run on a text.
Scored == pc # "idle" /\ classificationResult.isString

AnyMatch(patterns, text) == \E i \in 1..Len(patterns) : Test(patterns[i], text)

\* 5, 4, 3 or 1: the highest threat tier with a matching pattern.
TierOf(text) ==
    IF AnyMatch(CriticalPatterns, text) THEN 5
    ELSE IF AnyMatch(HighPatterns, text) THEN 4
    ELSE IF AnyMatch(MediumPatterns, text) THEN 3
    ELSE 1

MitigatingPhrases(text) ==
    {w \in text : \E i \in 1..Len(NormalPatterns) : w \in NormalPatterns[i]}

MitigatingPatterns(text) ==
    {i \in 1..Len(NormalPatterns) : Test(NormalPatterns[i], text)}

\* C4: the pattern score lies in 1..5, however many mitigating patterns match.
C4_PatternScoreInRange ==
    Scored => patternAnalysis.score \in 1..5

\* C4 witness: a medium match with all five mitigating patterns scores 1.
C4_Witness ==
    /\ Scored
    /\ classificationResult.classification =
          {"running", "employee", "uniform", "badge", "delivery", "family", "routine"}
    /\ patternAnalysis.score = 1

\* C5 as claimed: the score is lowered by one for each mitigating phrase of the
\* text, so a weapon phrase with 'uniform' and 'badge' scores 3.
C5_OnePerMitigatingPhrase ==
    Scored =>
       LET text == classificationResult.classification
       IN  patternAnalysis.score =
              Max(1, TierOf(text) - Cardinality(MitigatingPhrases(text)))

\* C5 as amended: the score is lowered by one for each mitigating pattern that
\* matches, whatever the number of its phrases in the text: a weapon phrase with
\* 'uniform' and 'badge' (one pattern) scores 4, with 'uniform' and 'delivery'
\* (two patterns) 3.
C5_OnePerMitigatingPattern ==
    Scored =>
       LET text == classificationResult.classification
       IN  /\ patternAnalysis.score =
                 Max(1, TierOf(text) - Cardinality(MitigatingPatterns(text)))
           /\ text = {"gun", "uniform", "badge"} => patternAnalysis.score = 4
           /\ text = {"gun", "uniform", "delivery"} => patternAnalysis.score = 3

\* C5 witness: the weapon phrase with 'uniform' and 'badge' has been scored 4.
C5_Witness ==
    /\ Scored
    /\ classificationResult.classification = {"gun", "uniform", "badge"}
    /\ patternAnalysis.score = 4

CriticalPhrases == UNION {CriticalPatterns[i] : i \in 1..Len(CriticalPatterns)}

\* C6: adding a critical phrase to the scored text, its mitigating matches
\* unchanged, never gives a lower pattern score.
C6_CriticalNeverLowers ==
    (Scored /\ contextCall = "none") =>
       \A c \in CriticalPhrases :
          _analyzePatterns(classificationResult.classification \cup {c}).score
             >= patternAnalysis.score

\* C6 witness: a text that matches one mitigator only scores 1, and 4 once a
\* weapon phrase is added; the text that matches nothing scores 1.
C6_Witness ==
    /\ Scored
    /\ classificationResult.classification = {"uniform"}
    /\ patternAnalysis.score = 1
    /\ _analyzePatterns({"uniform", "gun"}).score = 4
    /\ _analyzePatterns({}).score = 1

\* The words of the text that match a pattern of a threat tier.
ThreatWords(text) ==
    {w \in text : \/ AnyMatch(CriticalPatterns, {w})
                  \/ AnyMatch(HighPatterns, {w})
                  \/ AnyMatch(MediumPatterns, {w})}

\* C31: the pattern score is max(1, T - m) with T the level of the highest
\* threat tier that matched (5, 4, 3, or 1 for none) and m the number of
\* mitigating patterns that matched; further matches of the same or a lower
\* tier leave it as it is: the text with any of its threat words removed that
\* keeps T scores the same.
C31_MaxOfTiersLessMitigation ==
    Scored =>
       LET text == classificationResult.classification
           T == TierOf(text)
           m == Cardinality(MitigatingPatterns(text))
       IN  /\ patternAnalysis.score = Max(1, T - m)
           /\ \A fewer \in SUBSET ThreatWords(text) :
                 TierOf(text \ fewer) = T =>
                    _analyzePatterns(text \ fewer).score = patternAnalysis.score

\* C31 witness: two critical patterns, a high and a medium one matched with
\* two mitigating patterns, and the score is 5 - 2.
C31_Witness ==
    /\ Scored
    /\ classificationResult.classification =
          {"gun", "fire", "lurking", "running", "employee", "delivery"}
    /\ patternAnalysis.score = 3

\* The contextual scorer was called and failed: the process could not start,
\* closed with a non-zero code, or replied with nothing the parser can score.
ContextFailed == contextCall \in {"error", "close", "unscored"}

\* C7: when the contextual scorer call fails, analyzeThreat returns an
\* assessment that is no ERROR assessment, whose score is the pattern score and
\* whose threat_detected is (pattern score >= notificationThreshold).
C7_DegradedToPatternScore ==
    (pc = "returned" /\ ContextFailed) =>
       /\ analysis.threat_level # "ERROR"
       /\ analysis.threat_score = patternAnalysis.score
       /\ analysis.threat_detected =
             (patternAnalysis.score >= detector.notificationThreshold)

\* C7 witness: the analysis process closed with a non-zero code and the weapon
\* text is still assessed CRITICAL and detected.
C7_Witness ==
    /\ pc = "returned"
    /\ contextCall = "close"
    /\ classificationResult.classification = {"gun"}
    /\ analysis.threat_score = 5
    /\ analysis.threat_detected

\* C8: an exception raised inside analyzeThreat is caught there: the call
\* returns an assessment with threat_level ERROR, threat_score 0,
\* threat_detected false and a reason naming the failure, and an ERROR
\* assessment never makes shouldTriggerNotification true.
C8_ErrorAssessment ==
    /\ pc \in {"idle", "context", "returned"}
    /\ thrown # "" =>
          /\ pc = "returned"
          /\ analysis.threat_level = "ERROR"
          /\ analysis.threat_score = 0
          /\ analysis.threat_detected = FALSE
          /\ analysis.threat_reasons = <<"Analysis error: " \o thrown>>
          /\ ~shouldTriggerNotification(analysis)
    /\ analysis.threat_level = "ERROR" => ~shouldTriggerNotification(analysis)

\* C8 witness: a classification that is no string made _analyzePatterns throw
\* and analyzeThreat returned the ERROR assessment.
C8_Witness ==
    /\ pc = "returned"
    /\ ~classificationResult.isString
    /\ thrown = TypeErrorMessage
    /\ analysis.threat_level = "ERROR"

\* C9: threat_detected is true exactly when threat_score >= notificationThreshold
\* (3 when the configuration sets none); a text with one medium match and one
\* mitigator scores 2 (LOW), not detected at threshold 3 and detected at 2.
C9_DetectedIffAtThreshold ==
    /\ Constructor([given |-> {}, notificationThreshold |-> 1,
                    detailedAnalysis |-> FALSE]).notificationThreshold = 3
    /\ pc = "returned" =>
          /\ analysis.threat_detected =
                (analysis.threat_score >= detector.notificationThreshold)
          /\ (/\ classificationResult.isString
              /\ classificationResult.classification = {"running", "uniform"}
              /\ contextAnalysis.score = 0) =>
                /\ analysis.threat_score = 2
                /\ analysis.threat_level = "LOW"
                /\ detector.notificationThreshold = 3 => ~analysis.threat_detected
                /\ detector.notificationThreshold = 2 => analysis.threat_detected

\* C9 witness: the medium-and-mitigator text was assessed at threshold 2 and
\* is detected with score 2.
C9_Witness ==
    /\ pc = "returned"
    /\ classificationResult.classification = {"running", "uniform"}
    /\ detector.notificationThreshold = 2
    /\ analysis.threat_score = 2
    /\ analysis.threat_detected

\* C32: an assessment that is no ERROR assessment has threat_score =
\* max(pattern score, context score), a value of 1..5, whatever the context
\* score is (0 when the scorer was off, failed or found nothing, else 1..5).
C32_ScoreIsMaxInRange ==
    (pc = "returned" /\ analysis.threat_level # "ERROR") =>
       /\ contextAnalysis.score \in 0..5
       /\ analysis.threat_score >= patternAnalysis.score
       /\ analysis.threat_score >= contextAnalysis.score
       /\ analysis.threat_score \in {patternAnalysis.score, contextAnalysis.score}
       /\ analysis.threat_score \in 1..5

\* C32 witness: the contextual scorer answered CRITICAL on a text the pattern
\* scorer gave 1, and the assessment has score 5.
C32_Witness ==
    /\ pc = "returned"
    /\ contextCall = "scored"
    /\ patternAnalysis.score = 1
    /\ contextAnalysis.score = 5
    /\ analysis.threat_score = 5

\* C35: every assessment analyzeThreat returns recommends one of none,
\* log_for_review, monitor_closely, investigate_immediately and
\* immediate_response, the one that belongs to its level.
C35_ActionOfLevel ==
    pc = "returned" =>
       /\ analysis.recommended_action \in
             {"none", "log_for_review", "monitor_closely", "investigate_immediately",
              "immediate_response"}
       /\ analysis.threat_level = "CRITICAL" =>
             analysis.recommended_action = "immediate_response"
       /\ analysis.threat_level = "HIGH" =>
             analysis.recommended_action = "investigate_immediately"
       /\ analysis.threat_level = "MEDIUM" =>
             analysis.recommended_action = "monitor_closely"
       /\ analysis.threat_level = "LOW" =>
             analysis.recommended_action = "log_for_review"
       /\ analysis.threat_level = "NONE" => analysis.recommended_action = "none"

LevelRank ==
    [NONE |-> 1, LOW |-> 2, MEDIUM |-> 3, HIGH |-> 4, CRITICAL |-> 5]

LevelTable == <<"NONE", "LOW", "MEDIUM", "HIGH", "CRITICAL">>

\* C10: the level of an assessment is NONE, LOW, MEDIUM, HIGH, CRITICAL for the
\* scores 1, 2, 3, 4, 5, and no higher score projects to a lower level.
C10_LevelProjection ==
    (pc = "returned" /\ analysis.threat_level # "ERROR") =>
       /\ analysis.threat_score \in 1..5
       /\ analysis.threat_level = LevelTable[analysis.threat_score]
       /\ \A s \in 0..6 :
             /\ s >= analysis.threat_score =>
                   LevelRank[_calculateThreatLevel(s)] >= LevelRank[analysis.threat_level]
             /\ s <= analysis.threat_score =>
                   LevelRank[_calculateThreatLevel(s)] <= LevelRank[analysis.threat_level]

\* C10 witness: a score of 4 was projected to HIGH.
C10_Witness ==
    /\ pc = "returned"
    /\ analysis.threat_score = 4
    /\ analysis.threat_level = "HIGH"

C23_PatternOnlyAssessment ==
    ~detector.detailedAnalysis =>
        /\ pc # "context"
        /\ contextCall = "none"
        /\ contextAnalysis = NoContext
        /\ (pc = "returned" /\ classificationResult.isString) =>
              /\ analysis.threat_score = patternAnalysis.score
              /\ analysis.threat_level = LevelTable[patternAnalysis.score]
              /\ analysis.confidence =
                    IF patternAnalysis.reasons # <<>> THEN 40 ELSE 0

\* A pattern-only assessment of a text that matched a pattern.
C23_Witness ==
    /\ ~detector.detailedAnalysis
    /\ pc = "returned"
    /\ classificationResult.isString
    /\ patternAnalysis.reasons # <<>>
    /\ analysis.confidence = 40
    /\ analysis.threat_score = 4

(***************************************************************************)
(* Claims about the alert channel (NotifierSpec)                           *)
(***************************************************************************)
Requests(method) == {i \in 1..Len(sent) : sent[i].method = method}

RequestOk(method) == \E i \in Requests(method) : sent[i].outcome = "ok"

\* C17: sendSafetyAlert sends the text-only alert exactly when no image path
\* is given, the image file is missing or the photo send failed, attempts the
\* photo only when the file is there, and resolves with true exactly when the
\* photo send or the text send succeeded.
C17_TextFallback ==
    notifierPc = "returned" =>
       LET photoFailed == Requests("sendPhoto") # {} /\ ~RequestOk("sendPhoto")
           fallback == \/ alertOptions.image \in {"undefined", ""}
                       \/ ~evidenceOnDisk
                       \/ photoFailed
       IN  /\ Cardinality(Requests("sendMessage")) = (IF fallback THEN 1 ELSE 0)
           /\ Cardinality(Requests("sendPhoto")) =
                 (IF HasEvidence(alertOptions, evidenceOnDisk) THEN 1 ELSE 0)
           /\ delivered = (RequestOk("sendPhoto") \/ RequestOk("sendMessage"))

\* C17 witness: the photo was refused, the text alert went out and the call
\* resolved with true.
C17_Witness ==
    /\ notifierPc = "returned"
    /\ Len(sent) = 2
    /\ sent[1].method = "sendPhoto" /\ sent[1].outcome = "refused"
    /\ sent[2].method = "sendMessage" /\ sent[2].outcome = "ok"
    /\ delivered

\* A request that met a delivery problem: a network error or a reply that
\* is not ok.
Problem(request) == request.outcome \in {"refused", "threw"}

\* C25: for every severity, a delivery problem of the photo or the text
\* request never leaves sendSafetyAlert as an exception: after a failed photo
\* the call goes on to the text request, and after a failed text request it
\* has returned with the result false.
C25_DeliveryProblemsGiveFalse ==
    \A severity \in {"LOW", "MEDIUM", "HIGH", "CRITICAL"} :
       Severity(alertOptions) = severity =>
          /\ notifierPc # "threw"
          /\ (sent # <<>> /\ Problem(sent[Len(sent)])) =>
                IF sent[Len(sent)].method = "sendPhoto"
                THEN notifierPc = "message" /\ ~delivered
                ELSE notifierPc = "returned" /\ ~delivered

\* C25 witness: a CRITICAL alert whose photo request met a network error and
\* whose text request was refused has returned false.
C25_Witness ==
    /\ Severity(alertOptions) = "CRITICAL"
    /\ notifierPc = "returned"
    /\ Len(sent) = 2
    /\ sent[1].method = "sendPhoto" /\ sent[1].outcome = "threw"
    /\ sent[2].method = "sendMessage" /\ sent[2].outcome = "refused"
    /\ ~delivered

(***************************************************************************)
(* Claims about the retention sweeps (CleanupSpec)                         *)
(***************************************************************************)
SweptDirs == {"frames", "results"}

DirNow(d) == IF d = "frames" THEN captureDir ELSE classificationDir

\* The sweep of directory d has run on a listing.
Swept(d) == swept[d].done /\ ~swept[d].err

\* The files the sweep listed as matching that are still in the directory.
Retained(d) == DOMAIN swept[d].listed \cap DOMAIN DirNow(d)

\* C11 as claimed: after a sweep the matching files retained number
\* min(count before the sweep, maxFiles) and are the most recently modified
\* ones: none of them is older than a matching file that is gone.
C11_RetainsNewestMaxFiles ==
    \A d \in SweptDirs :
       Swept(d) =>
          LET listed == swept[d].listed
          IN  /\ Cardinality(Retained(d)) =
                    Min(Cardinality(DOMAIN listed), maxFiles)
              /\ \A kept \in Retained(d), gone \in DOMAIN listed \ Retained(d) :
                    listed[kept] >= listed[gone]

\* C11 as amended: after a sweep the matching files retained are the excess
\* files whose deletion failed and, besides them, min(count before the sweep,
\* maxFiles) files, none of them older than any other matching file the sweep
\* listed; with no failed deletion the count is min(count before, maxFiles).
C11_RetainsNewestAndUndeleted ==
    \A d \in SweptDirs :
       Swept(d) =>
          LET listed == swept[d].listed
              newest == Retained(d) \ swept[d].failing
          IN  /\ swept[d].failing \subseteq Retained(d)
              /\ Cardinality(newest) = Min(Cardinality(DOMAIN listed), maxFiles)
              /\ \A kept \in newest, other \in DOMAIN listed \ newest :
                    listed[kept] >= listed[other]
              /\ swept[d].failing = {} =>
                    Cardinality(Retained(d)) =
                       Min(Cardinality(DOMAIN listed), maxFiles)

\* C11 witness: a sweep listed three frames of which the first is the oldest,
\* deleted it and retained the two others.
C11_Witness ==
    /\ Swept("frames")
    /\ DOMAIN swept["frames"].listed = {FrameName(i) : i \in Stems}
    /\ swept["frames"].listed[FrameName("1")] = 1
    /\ swept["frames"].listed[FrameName("2")] = 2
    /\ swept["frames"].listed[FrameName("3")] = 2
    /\ Retained("frames") = {FrameName("2"), FrameName("3")}
    /\ swept["frames"].failing = {}

OtherDir(d) == IF d = "frames" THEN "results" ELSE "frames"

LoggedFailure(f) ==
    \E i \in DOMAIN sweepLog :
       sweepLog[i].line = "Failed to delete" /\ sweepLog[i].file = f

\* C20: a deletion that fails during a sweep is logged and never leaves the
\* sweep: the other excess files of the directory are deleted all the same,
\* and the sweep of the other directory has run or is still to run.
C20_DeletionFailureContained ==
    /\ ~uncaught
    /\ \A d \in SweptDirs :
          Swept(d) =>
             /\ \A f \in swept[d].failing : LoggedFailure(f)
             /\ \A f \in swept[d].toDelete \ swept[d].failing :
                   f \notin DOMAIN DirNow(d)
             /\ readdirs[OtherDir(d)].due \/ swept[OtherDir(d)].done

\* The files of a directory that are gone after this step, and those of its
\* files that are changed by it.
Gone(before, after) == DOMAIN before \ DOMAIN after

Touched(before, after) == {f \in DOMAIN before \cap DOMAIN after : after[f] # before[f]}

\* C38: whatever a sweep removes from the frames directory has a name that
\* starts with "frame-", whatever it removes from the results directory has
\* a name that ends with "_classification.json", and no step changes a file
\* that stays: the summary log and every file of another kind are left as
\* they were.
C38_SweepsTouchOnlyMatchingNames ==
    [][/\ \A f \in Gone(captureDir, captureDir') : f[1] = "frame-"
       /\ \A f \in Gone(classificationDir, classificationDir') :
             f[Len(f)] = "_classification.json"
       /\ Touched(captureDir, captureDir') = {}
       /\ Touched(classificationDir, classificationDir') = {}
       /\ OtherNames \subseteq DOMAIN captureDir'
       /\ SummaryLogName \in DOMAIN classificationDir'
      ]_vars

\* C38 witness: both sweeps have run and deleted files, and the summary log
\* and the files of other kinds are still there.
C38_Witness ==
    /\ Swept("frames") /\ swept["frames"].listed # <<>>
    /\ DOMAIN swept["frames"].listed \ DOMAIN captureDir # {}
    /\ Swept("results") /\ swept["results"].listed # <<>>
    /\ DOMAIN swept["results"].listed \ DOMAIN classificationDir # {}
    /\ OtherNames \subseteq DOMAIN captureDir
    /\ SummaryLogName \in DOMAIN classificationDir

\* The matching files a sweep listed that are gone from the directory.
Deleted(d) == DOMAIN swept[d].listed \ DOMAIN DirNow(d)

\* C27: a sweep of the legacy cleanupOldFiles in which no deletion fails
\* deletes count - maxFiles matching files when the directory holds more
\* than maxFiles matching files, and none when it holds maxFiles or fewer,
\* whatever other files are there.
C27_LegacyDeletesOnlyExcess ==
    \A d \in SweptDirs :
       (Swept(d) /\ swept[d].failing = {}) =>
          LET count == Cardinality(DOMAIN swept[d].listed)
          IN  Cardinality(Deleted(d)) =
                 (IF count > legacyMaxFiles THEN count - legacyMaxFiles ELSE 0)

(***************************************************************************)
(* Claims about the tick pipeline (Spec, TickSpec)                         *)
(***************************************************************************)
\* Date.now-based part of a frame file name; two captures may share it.
Timestamps == {"T0", "T1"}

\* `frame-${frameCount}-${timestamp}.jpg`
filename(count, timestamp) == <<"frame-", count, "-", timestamp, ".jpg">>

\* `${path.parse(imageFilename).name}_classification.json`
jsonFilename(imageFilename) ==
    SubSeq(imageFilename, 1, Len(imageFilename) - 1) \o <<"_classification.json">>

\* C19: every capture, of whatever stream, gets a frame number greater than
\* all numbers given out before it, so that no two captures share the name of
\* their frame file or of their result record, whatever their timestamps.
C19_FrameNumbersUnique ==
    \A i, j \in DOMAIN allocated :
        i < j =>
            /\ allocated[i].frame < allocated[j].frame
            /\ \A ti, tj \in Timestamps :
                  LET fi == filename(allocated[i].frame, ti)
                      fj == filename(allocated[j].frame, tj)
                  IN  fi # fj /\ jsonFilename(fi) # jsonFilename(fj)

\* Two streams have each captured a frame.
C19_Witness ==
    \E i, j \in DOMAIN allocated : i < j /\ allocated[i].key # allocated[j].key

\* The entries of the summary log that belong to a frame.
Records(log, frame) == {i \in DOMAIN log : log[i].frame = frame}

\* The tick of pipeline p ends with this step.
Ends(p) == p \in pipelines /\ \A q \in pipelines' : q.frame # p.frame

\* C12: a tick that reached the description stage has, when it ends, exactly
\* one entry in the summary log: a failure entry if the description service
\* failed, a success entry if description and result record were produced;
\* no frame ever has both a success and a failure entry.
C12_OneRecordPerTick ==
    [][\A p \in pipelines :
          (p.stage \in {"classify", "save", "alert"} /\ Ends(p)) =>
              LET mine == Records(summaryLog', p.frame)
              IN  /\ Cardinality(mine) = 1
                  /\ p.stage = "classify" => \A i \in mine : ~summaryLog'[i].success
                  /\ p.frame \in resultFiles' => \A i \in mine : summaryLog'[i].success
      ]_vars

\* C29: the summary-log records of one stream are in tick order: of two
\* ticks of a stream, the record of the one that started first comes first.
C29_RecordsInTickOrder ==
    \A i, j \in DOMAIN allocated :
        (i < j /\ allocated[i].key = allocated[j].key) =>
            \A ri \in Records(summaryLog, allocated[i].frame),
               rj \in Records(summaryLog, allocated[j].frame) : ri < rj

\* C16: a frame whose extractor exited non-zero, or whose output file is
\* empty or missing, has no pipeline any more, was never handed to the
\* description service, has no entry in the summary log and no alert; the
\* step that discards it leaves the registry and all timers as they were.
C16_FailedCaptureEndsTick ==
    [][/\ \A f \in unusable' :
             /\ \A q \in pipelines' : q.frame # f
             /\ f \notin DOMAIN classification'
             /\ Records(summaryLog', f) = {}
             /\ f \notin resultFiles' \cup alerts'
       /\ unusable' # unusable =>
             /\ activeStreams' = activeStreams
             /\ timers' = timers
      ]_vars

\* A capture failed, its stream is still registered, and a later tick of the
\* same stream is under way.
C16_Witness ==
    \E i, j \in DOMAIN allocated :
        /\ i < j
        /\ allocated[i].key = allocated[j].key
        /\ allocated[i].frame \in unusable
        /\ allocated[i].key \in DOMAIN activeStreams
        /\ \E p \in pipelines : p.frame = allocated[j].frame /\ p.stage = "classify"

(***************************************************************************)
(* Claims about classifier results and notifications (NotifySpec)          *)
(***************************************************************************)
\* C13: a frame whose description failed has a failure entry in the summary
\* log, and nothing else: no success entry, no result record, no assessment,
\* no alert.
C13_FailureRecordPersisted ==
    \A f \in failedDescriptions :
        /\ \E i \in Records(summaryLog, f) : ~summaryLog[i].success
        /\ \A i \in Records(summaryLog, f) : ~summaryLog[i].success
        /\ f \notin resultFiles
        /\ f \notin alerts
        /\ pc = "idle" /\ ~_threatAnalysis.defined

\* C14: once the assessment of a successfully described frame has been made,
\* the summary log holds it (level, score, triggered) with the frame's entry,
\* whether or not it triggered an alert.
C14_AssessmentLogged ==
    (notifyPc = "done" /\ _threatAnalysis.defined) =>
        \E i \in Records(summaryLog, classificationResult.image_file) :
            /\ summaryLog[i]._threatAnalysis.defined
            /\ summaryLog[i]._threatAnalysis.value.threat_level = analysis.threat_level
            /\ summaryLog[i]._threatAnalysis.value.threat_score = analysis.threat_score
            /\ summaryLog[i]._threatAnalysis.value.threat_detected
                  = analysis.threat_detected

TickFrame == allocated[Len(allocated)].frame

TickOver == \A q \in pipelines : q.frame # TickFrame

Failed(request) == sendClassificationRequest(request.reply).threw

\* C21: a request to the description service that failed is the last one
\* made for its frame, and the tick then ends with a failure record and no
\* success record.
C21_NoSecondRequest ==
    \A i \in DOMAIN requests :
        Failed(requests[i]) =>
            /\ i = Len(requests)
            /\ TickOver =>
                  /\ \E j \in Records(summaryLog, TickFrame) : ~summaryLog[j].success
                  /\ \A j \in Records(summaryLog, TickFrame) : ~summaryLog[j].success

\* A reply that is neither JSON nor a ZIP with a .response entry.
Unrecognised(reply) ==
    reply.kind = "other" \/ (reply.kind = "zip" /\ reply.body = "noentry")

\* C30: when the last reply for the frame came in an unrecognised format,
\* the frame gets no result record, no success record and no alert, and its
\* tick ends with a failure record.
C30_UnrecognisedReplyIsFailure ==
    (requests # <<>> /\ Unrecognised(requests[Len(requests)].reply)) =>
        /\ TickFrame \notin resultFiles \cup alerts
        /\ \A j \in Records(summaryLog, TickFrame) : ~summaryLog[j].success
        /\ TickOver => \E j \in Records(summaryLog, TickFrame) : ~summaryLog[j].success

\* C22: when the alert of a tick is not delivered (the channel resolves with
\* false, or rejects), the tick ends there, and the entries of its frame in
\* the summary log, among them its success record, and its result record
\* are what they were before.
C22_AlertFailureKeepsRecords ==
    [][\A p \in pipelines :
          (p.stage = "alert" /\ p \notin pipelines') =>
              LET before == Records(summaryLog, p.frame)
              IN  /\ Ends(p)
                  /\ Records(summaryLog', p.frame) = before
                  /\ \A i \in before : summaryLog'[i] = summaryLog[i]
                  /\ \E i \in before : summaryLog'[i].success
                  /\ \A i \in before : summaryLog'[i].success
                  /\ p.frame \in resultFiles /\ resultFiles' = resultFiles
      ]_vars

\* The alert of a finished tick was not delivered.
C22_Witness ==
    \E f \in undelivered :
        /\ \A q \in pipelines : q.frame # f
        /\ f \in resultFiles
        /\ \E i \in Records(summaryLog, f) : summaryLog[i].success

(***************************************************************************)
(* Claims about the settle delay (SettleSpec)                              *)
(***************************************************************************)
\* C26: the size of the frame file is checked when the settle delay has
\* elapsed, so no frame whose file is empty or missing at the end of the
\* delay is handed to the description service.
C26_SizeCheckedAfterSettle ==
    \A p \in pipelines : p.stage = "classify" => p.frame \notin lostFiles

(***************************************************************************)
(* Claims about the parser of the contextual reply (ParseSpec)             *)
(***************************************************************************)
\* The distinct words of the fixed vocabulary found in the parsed output.
FoundKeywords == analysisOutput.keywords \cap SecurityKeywords

\* C33: for an output that is not empty and has no THREAT_LEVEL token, the
\* context score is min(k + 1, 5), k being the number of distinct vocabulary
\* words found in it.
C33_KeywordFallbackScore ==
    (analysisOutput.length > 0 /\ analysisOutput.level = "absent") =>
        contextAnalysis.score = Min(Cardinality(FoundKeywords) + 1, 5)

\* The entries of the factor list that a structured output gives, in order.
StructuredFactors(output) ==
    <<"AI threat assessment: " \o output.level>>
    \o (IF output.confidence THEN <<"AI confidence">> ELSE <<>>)
    \o (IF output.reason THEN <<"AI reasoning">> ELSE <<>>)

\* C34: for an output with a THREAT_LEVEL token of the severity table the
\* context score is the table's value for the level (CRITICAL 5, HIGH 4,
\* MEDIUM 3, LOW 2, NONE 1) whatever vocabulary words the output holds, and
\* the factor list is the level entry, the confidence entry and the reason
\* entry, in that order, with no keyword entry.
C34_LevelTokenScore ==
    analysisOutput.level \in {"CRITICAL", "HIGH", "MEDIUM", "LOW", "NONE"} =>
        /\ contextAnalysis.score =
              (CASE analysisOutput.level = "CRITICAL" -> 5
                 [] analysisOutput.level = "HIGH" -> 4
                 [] analysisOutput.level = "MEDIUM" -> 3
                 [] analysisOutput.level = "LOW" -> 2
                 [] OTHER -> 1)
        /\ contextAnalysis.factors = StructuredFactors(analysisOutput)

\* C34 witness: a CRITICAL output with both fields and two vocabulary words
\* was scored 5 with three factors.
C34_Witness ==
    /\ analysisOutput = [level |-> "CRITICAL", confidence |-> TRUE, reason |-> TRUE,
                         keywords |-> {"weapon", "threat"}, length |-> 1]
    /\ contextAnalysis.score = 5
    /\ Len(contextAnalysis.factors) = 3

(***************************************************************************)
(* Claims about the keyword filter (TriggerSpec)                           *)
(***************************************************************************)
\* The keyword occurs in the text, whatever the case of either.
Occurs(keyword, text) == \E w \in text : toLowerCase(w) = toLowerCase(keyword)

\* C24: with trigger filtering enabled, a text triggers an alert if any
\* configured keyword occurs in it in whatever case, when requireAll is
\* false (and, when keywords are configured, only then); when requireAll is
\* true it triggers exactly if all configured keywords occur.
C24_KeywordTriggers ==
    LET t == serverConfig.triggers
        text == classificationText.text
    IN  (triggerAlert # "none" /\ t.enabled /\ classificationText.isString) =>
            IF t.requireAll
            THEN triggerAlert = "true" <=> \A k \in t.keywords : Occurs(k, text)
            ELSE /\ (\E k \in t.keywords : Occurs(k, text)) => triggerAlert = "true"
                 /\ (t.keywords # {} /\ triggerAlert = "true") =>
                        \E k \in t.keywords : Occurs(k, text)

\* The keyword book triggered on a text that spells it BOOK.
C24_Witness ==
    /\ serverConfig.triggers.enabled
    /\ ~serverConfig.triggers.requireAll
    /\ serverConfig.triggers.keywords = {"book"}
    /\ classificationText = Classification({"BOOK", "gun"})
    /\ triggerAlert = "true"

(***************************************************************************)
(* Specifications                                                          *)
(***************************************************************************)
Init ==
    /\ StreamInit
    /\ ThreatIdle
    /\ detector = Constructor(ServerDetectorConfig)
    /\ NotifierIdle
    /\ CleanupIdle
    /\ TickIdle
    /\ serverConfig = RepoConfig
    /\ captureDir = <<>>
    /\ classificationDir = <<>>

Spec == Init /\ [][Next]_vars

ThreatInit ==
    /\ StreamInit
    /\ ThreatIdle
    /\ \E config \in DetectorConfigs : detector = Constructor(config)
    /\ NotifierIdle
    /\ CleanupIdle
    /\ TickIdle
    /\ serverConfig = RepoConfig
    /\ captureDir = <<>>
    /\ classificationDir = <<>>

ThreatSpec == ThreatInit /\ [][ThreatNext]_vars

ParseSpec == Init /\ [][ParseNext]_vars

NotifierSpec == Init /\ [][NotifierNext]_vars

\* The directories hold what earlier runs and captures left in them.
CleanupInit ==
    /\ StreamInit
    /\ ThreatIdle
    /\ detector = Constructor(ServerDetectorConfig)
    /\ NotifierIdle
    /\ CleanupIdle
    /\ TickIdle
    /\ serverConfig = RepoConfig
    /\ \E layout \in Layouts :
          /\ captureDir = FramesOf(layout)
          /\ classificationDir = ResultsOf(layout)

CleanupSpec == CleanupInit /\ [][CleanupNext]_vars

LegacyCleanupSpec == CleanupInit /\ [][LegacyCleanupNext]_vars

\* The server started with any of the configurations.
TickInit ==
    /\ StreamInit
    /\ ThreatIdle
    /\ detector = Constructor(ServerDetectorConfig)
    /\ NotifierIdle
    /\ CleanupIdle
    /\ captureDir = <<>>
    /\ classificationDir = <<>>
    /\ TickIdle
    /\ serverConfig \in Configs

TickSpec == TickInit /\ [][TickNext]_vars

NotifySpec == TickInit /\ [][NotifyNext]_vars

\* The first frame of stream live/a has been captured and has settled;
\* classifyImage has just called the classifier.
DescribeInit ==
    /\ activeStreams = ("live/a" :> 2)
    /\ timers = {[id |-> 2, kind |-> "interval", key |-> "live/a"]}
    /\ timerSeq = 2
    /\ frameCount = 1
    /\ pipelines = {[frame |-> 1, key |-> "live/a", stage |-> "classify"]}
    /\ stopped = [k \in StreamKeys |-> FALSE]
    /\ startedTwice = FALSE
    /\ allocated = <<[frame |-> 1, key |-> "live/a"]>>
    /\ unusable = {}
    /\ ThreatIdle
    /\ detector = Constructor(ServerDetectorConfig)
    /\ NotifierIdle
    /\ CleanupIdle
    /\ captureDir = <<>>
    /\ classificationDir = <<>>
    /\ classification = <<>>
    /\ summaryLog = <<>>
    /\ resultFiles = {}
    /\ alerts = {}
    /\ failedDescriptions = {}
    /\ undelivered = {}
    /\ notifyPc = "idle"
    /\ _threatAnalysis = Undefined
    /\ classifierPc = "direct"
    /\ requests = <<>>
    /\ settled = [threw |-> FALSE, value |-> NoClassification]
    /\ classificationText = NoClassification
    /\ triggerAlert = "none"
    /\ lostFiles = {}
    /\ exited = FALSE
    /\ serverConfig \in Configs

DescribeSpec == DescribeInit /\ [][DescribeNext]_vars

\* The streaming server with a file system that can lose a frame file.
SettleNext ==
    \/ Next
    \/ \E p \in pipelines : FrameFileLost(p)

SettleSpec == Init /\ [][SettleNext]_vars

\* The streaming server until it is interrupted.
ShutdownNext ==
    \/ ~exited /\ Next
    \/ Sigint

ShutdownSpec == Init /\ [][ShutdownNext]_vars

\* The server started with any trigger section.
TriggerInit ==
    /\ StreamInit
    /\ ThreatIdle
    /\ detector = Constructor(ServerDetectorConfig)
    /\ NotifierIdle
    /\ CleanupIdle
    /\ captureDir = <<>>
    /\ classificationDir = <<>>
    /\ TickIdle
    /\ serverConfig \in TriggerConfigs

TriggerSpec == TriggerInit /\ [][TriggerNext]_vars

====
